---- MODULE Spec2Model ----
(***************************************************************************)
(* serial-rs, Unix TTY backend (serial-unix), Linux build                  *)
(* (target_os = "linux": `use termios2 as termios`, ppoll); reads and      *)
(* writes also with the do_poll of the other Unix targets (poll).          *)
(*                                                                         *)
(* The specifications of this module:                                      *)
(*   Spec          the TTYPort lifecycle (open / drop) of several          *)
(*                 processes on one TTY device;                            *)
(*   SpecSettings  the five TTYSettings setters interleaved, over a raw    *)
(*                 termios2 block that starts as arbitrary memory;         *)
(*   SpecCodec     set_baud_rate / baud_rate alone, with every rate of     *)
(*                 the enumeration;                                        *)
(*   SpecPoll      the readiness wait wait_fd;                             *)
(*   SpecError     the error mapper from_raw_os_error;                     *)
(*   SpecIo        one port's open, read, write, flush, set_timeout, drop  *)
(*                 against a device that receives and transmits;           *)
(*   SpecSilent    reads on a device that stays silent, with the timer's   *)
(*                 expiry fair;                                            *)
(*   SpecDevice    one port's open, read_settings, setters and             *)
(*                 write_settings against the live attribute block;        *)
(*   SpecConfigure one port's open, configure and drop;                    *)
(*   SpecPins      one port's set_rts, set_dtr, read_cts, read_dsr,        *)
(*                 read_ri, read_cd against the modem-control lines;       *)
(*   SpecBuffers   write_settings on a device whose buffers fill;          *)
(*   SpecStandard  set_baud_rate / baud_rate of the standard backend       *)
(*                 (termios.rs, the targets other than linux).             *)
(*                                                                         *)
(* Machine words are bit vectors: a u32 is the set of its set bit          *)
(* positions (a subset of 0..31), a usize the same over 0..63.  `&` is     *)
(* intersection, `|` union, `!` complement in the width, `as u32` the      *)
(* intersection with 0..31.  The encoding is exact for every width.        *)
(***************************************************************************)
EXTENDS Integers, Sequences, FiniteSets, TLC

VARIABLES
    pc,        \* Spec: per process, the next step of TTYPort::open / drop
    path,      \* Spec: per process, the path given to open
    fdOpen,    \* Spec: per process, whether it holds an open descriptor
    devExcl,   \* Spec: the device's exclusive-mode flag (TIOCEXCL)
    result,    \* Spec: per process, what open returned
    log,       \* Spec: per process, the system calls of the current port
    termios,   \* SpecSettings: TTYSettings.termios
    lastOp,    \* SpecSettings: the last TTYSettings call and its argument
    lastBaud,  \* SpecSettings: the last set_baud_rate call (rate, speed)
    poll,      \* SpecPoll: the last wait_fd call and its outcome
    mapped,    \* SpecError: the last from_raw_os_error call (code, error)
    target,    \* the build: target_os = "linux" or another unix
    port,      \* the TTYPort of the program (fd, timeout), None when there is none
    dev,       \* the device's live attribute block
    rx,        \* the device's input buffer: bytes received and not yet read
    tx,        \* the device's output buffer: bytes written and not yet transmitted
    ioPc,      \* where the call in flight on the port blocks, "idle" when none is
    io,        \* the current or last call on the port, its system calls and result
    pins       \* the device's modem-control lines (the word TIOCMGET reads)

portVars == <<pc, path, fdOpen, devExcl, result, log>>
settingsVars == <<termios, lastOp, lastBaud>>
pollVars == <<poll>>
ioVars == <<target, port, dev, rx, tx, ioPc, io, pins>>
vars == <<pc, path, fdOpen, devExcl, result, log, termios, lastOp, lastBaud, poll,
          mapped, target, port, dev, rx, tx, ioPc, io, pins>>

(***************************************************************************)
(* Words                                                                   *)
(***************************************************************************)
U32 == 0..31
U64 == 0..63

RECURSIVE BitsFrom(_, _)
BitsFrom(n, i) ==
    IF n = 0 THEN {}
    ELSE (IF n % 2 = 1 THEN {i} ELSE {}) \cup BitsFrom(n \div 2, i + 1)

\* the word whose value is n (n below 2^31)
W(n) == BitsFrom(n, 0)

And(a, b) == a \cap b
Or(a, b) == a \cup b
Not32(a) == U32 \ a
Shl32(a, k) == {i + k : i \in {j \in a : j + k <= 31}}
Shr32(a, k) == {i - k : i \in {j \in a : j >= k}}
AsU32(a) == a \cap U32

None == <<>>
Some(x) == <<x>>

(***************************************************************************)
(* Error Mapper (error.rs), errno values of Linux                          *)
(***************************************************************************)
ENOENT == 2
EINTR == 4
EIO == 5
ENXIO == 6
EBADF == 9
EWOULDBLOCK == 11
EACCES == 13
EBUSY == 16
ENODEV == 19
ENOTDIR == 20
EISDIR == 21
EINVAL == 22
ENOTTY == 25
EPIPE == 32
ENAMETOOLONG == 36
ELOOP == 40

\* from_raw_os_error with EACCES left out of the first arm
from_raw_os_error_noacces(errno) ==
    [kind |-> CASE errno \in {EBUSY, EISDIR, ELOOP, ENOTDIR, ENOENT, ENODEV, ENXIO}
                        -> "NoDevice"
                [] errno \in {EINVAL, ENAMETOOLONG} -> "InvalidInput"
                [] errno = EINTR -> "Io(Interrupted)"
                [] errno = EWOULDBLOCK -> "Io(WouldBlock)"
                [] OTHER -> "Io(Other)",
     errno |-> errno]

from_raw_os_error(errno) ==
    [kind |-> CASE errno \in {EBUSY, EISDIR, ELOOP, ENOTDIR, ENOENT, ENODEV, ENXIO, EACCES}
                        -> "NoDevice"
                [] errno \in {EINVAL, ENAMETOOLONG} -> "InvalidInput"
                [] errno = EINTR -> "Io(Interrupted)"
                [] errno = EWOULDBLOCK -> "Io(WouldBlock)"
                [] OTHER -> "Io(Other)",
     errno |-> errno]

(***************************************************************************)
(* TTY Port lifecycle (tty.rs, TTYPort::open and Drop)                     *)
(*                                                                         *)
(* The operating system is the environment.  Its documented behaviour:     *)
(*   open(2)       fails with EBUSY on a terminal in exclusive mode (the   *)
(*                 processes here are unprivileged), with ENOENT on a      *)
(*                 path that does not exist;                               *)
(*   TIOCEXCL      puts the terminal into exclusive mode; it does not look *)
(*                 at descriptors that are already open;                   *)
(*   TIOCNXCL      leaves exclusive mode;                                  *)
(*   close(2)      releases the descriptor; the last close of the terminal *)
(*                 discards its exclusive mode.                            *)
(* Every call may also fail for reasons of its own (a device unplugged     *)
(* between two calls answers EIO).                                         *)
(***************************************************************************)
NumProcs == 2
Procs == 1..NumProcs

\* "tty": the device; "nul": a path with an embedded NUL; "missing": no such file
Paths == {"tty", "nul", "missing"}

NoResult == [kind |-> "none", errno |-> 0]
OkResult == [kind |-> "Ok", errno |-> 0]

\* a lifecycle step leaves the settings object and the waiter alone
PortFrame == UNCHANGED <<termios, lastOp, lastBaud, poll, mapped, ioVars>>

Sys(call, e) == [call |-> call, ok |-> (e = 0), errno |-> e]
Logged(p, call, e) == [log EXCEPT ![p] = Append(@, Sys(call, e))]

\* the steps of open after the path conversion, in program order
OpenCalls == <<"open", "TIOCEXCL", "F_SETFL", "TCGETS2", "TCSETS2", "TCIOFLUSH">>

OthersOpen(p) == \E q \in Procs \ {p} : fdOpen[q]

\* open without the test of the path conversion: every path goes to libc::open
OpenBegin_noconversion(p, pth) ==
    /\ pc[p] \in {"idle", "done"}
    /\ path' = [path EXCEPT ![p] = pth]
    /\ log' = [log EXCEPT ![p] = <<>>]
    /\ result' = [result EXCEPT ![p] = NoResult]
    /\ pc' = [pc EXCEPT ![p] = "open"]
    /\ UNCHANGED <<fdOpen, devExcl>>
    /\ PortFrame

\* let cstr = CString::new(..): an embedded NUL returns InvalidInput at once
OpenBegin(p, pth) ==
    /\ pc[p] \in {"idle", "done"}
    /\ path' = [path EXCEPT ![p] = pth]
    /\ log' = [log EXCEPT ![p] = <<>>]
    /\ IF pth = "nul"
         THEN /\ result' = [result EXCEPT ![p] = from_raw_os_error(EINVAL)]
              /\ pc' = [pc EXCEPT ![p] = "done"]
         ELSE /\ result' = [result EXCEPT ![p] = NoResult]
              /\ pc' = [pc EXCEPT ![p] = "open"]
    /\ UNCHANGED <<fdOpen, devExcl>>
    /\ PortFrame

\* what libc::open(cstr, O_RDWR | O_NOCTTY | O_NONBLOCK) can answer (0: a descriptor)
OpenOutcomes(pth) ==
    IF pth = "missing" THEN {ENOENT}
    ELSE IF devExcl THEN {EBUSY}
    ELSE {0, EACCES}

\* fd < 0 returns last_os_error(): no TTYPort exists yet, nothing is dropped
OsOpen(p) ==
    /\ pc[p] = "open"
    /\ \E e \in OpenOutcomes(path[p]) :
        /\ log' = Logged(p, "open", e)
        /\ IF e = 0
             THEN /\ fdOpen' = [fdOpen EXCEPT ![p] = TRUE]
                  /\ pc' = [pc EXCEPT ![p] = "TIOCEXCL"]
                  /\ UNCHANGED result
             ELSE /\ result' = [result EXCEPT ![p] = from_raw_os_error(e)]
                  /\ pc' = [pc EXCEPT ![p] = "done"]
                  /\ UNCHANGED fdOpen
    /\ UNCHANGED <<path, devExcl>>
    /\ PortFrame

\* A step of open on the constructed port: on failure the error is taken
\* from errno at once and `port` goes out of scope, which runs Drop.
PortStep(p, call, errs, next) ==
    /\ pc[p] = call
    /\ \E e \in {0} \cup errs :
        /\ log' = Logged(p, call, e)
        /\ IF e = 0
             THEN /\ pc' = [pc EXCEPT ![p] = next]
                  /\ result' = [result EXCEPT ![p] =
                                   IF next = "live" THEN OkResult ELSE @]
             ELSE /\ pc' = [pc EXCEPT ![p] = "drop"]
                  /\ result' = [result EXCEPT ![p] = from_raw_os_error(e)]
    /\ UNCHANGED <<path, fdOpen>>
    /\ PortFrame

\* the same step with the early return leaking the descriptor (no Drop)
Tiocexcl_leak(p) ==
    /\ pc[p] = "TIOCEXCL"
    /\ \E e \in {0, ENOTTY, EIO} :
        /\ log' = Logged(p, "TIOCEXCL", e)
        /\ IF e = 0
             THEN /\ pc' = [pc EXCEPT ![p] = "F_SETFL"]
                  /\ devExcl' = TRUE
                  /\ UNCHANGED <<result, fdOpen>>
             ELSE /\ pc' = [pc EXCEPT ![p] = "done"]
                  /\ result' = [result EXCEPT ![p] = from_raw_os_error(e)]
                  /\ fdOpen' = [fdOpen EXCEPT ![p] = FALSE]
                  /\ UNCHANGED devExcl
    /\ UNCHANGED path
    /\ PortFrame

\* libc::ioctl(port.fd, TIOCEXCL)
Tiocexcl(p) ==
    /\ PortStep(p, "TIOCEXCL", {ENOTTY, EIO}, "F_SETFL")
    /\ devExcl' = (devExcl \/ log'[p][Len(log'[p])].ok)

\* libc::fcntl(port.fd, F_SETFL, 0)
ClearNonblock(p) ==
    /\ PortStep(p, "F_SETFL", {EBADF}, "TCGETS2")
    /\ UNCHANGED devExcl

\* let settings = try!(port.read_settings()): termios::read, then in-memory changes
ReadSettings(p) ==
    /\ PortStep(p, "TCGETS2", {EIO}, "TCSETS2")
    /\ UNCHANGED devExcl

\* try!(port.write_settings(&settings)), first half: termios::write
WriteAttributes(p) ==
    /\ PortStep(p, "TCSETS2", {EIO}, "TCIOFLUSH")
    /\ UNCHANGED devExcl

\* try!(port.write_settings(&settings)), second half: termios::flush; then Ok(port)
FlushBuffers(p) ==
    /\ PortStep(p, "TCIOFLUSH", {EIO}, "live")
    /\ UNCHANGED devExcl

\* Drop with the close skipped when the release fails
DropRelease_abort(p) ==
    /\ pc[p] \in {"live", "drop"}
    /\ \E e \in {0, EIO} :
        /\ log' = Logged(p, "TIOCNXCL", e)
        /\ devExcl' = (IF e = 0 THEN FALSE ELSE devExcl)
        /\ pc' = [pc EXCEPT ![p] = IF e = 0 THEN "close" ELSE "done"]
        /\ fdOpen' = [fdOpen EXCEPT ![p] = (e # 0)]
    /\ UNCHANGED <<path, result>>
    /\ PortFrame

\* Drop, first call: libc::ioctl(self.fd, TIOCNXCL), its result ignored.
\* A live port is dropped when its owner lets it go out of scope.
DropRelease(p) ==
    /\ pc[p] \in {"live", "drop"}
    /\ \E e \in {0, EIO} :
        /\ log' = Logged(p, "TIOCNXCL", e)
        /\ devExcl' = (IF e = 0 THEN FALSE ELSE devExcl)
    /\ pc' = [pc EXCEPT ![p] = "close"]
    /\ UNCHANGED <<path, fdOpen, result>>
    /\ PortFrame

\* Drop, second call: libc::close(self.fd)
DropClose(p) ==
    /\ pc[p] = "close"
    /\ log' = Logged(p, "close", 0)
    /\ fdOpen' = [fdOpen EXCEPT ![p] = FALSE]
    /\ devExcl' = (devExcl /\ OthersOpen(p))
    /\ pc' = [pc EXCEPT ![p] = "done"]
    /\ UNCHANGED <<path, result>>
    /\ PortFrame

InitPort ==
    /\ pc = [p \in Procs |-> "idle"]
    /\ path = [p \in Procs |-> "tty"]
    /\ fdOpen = [p \in Procs |-> FALSE]
    /\ devExcl = FALSE
    /\ result = [p \in Procs |-> NoResult]
    /\ log = [p \in Procs |-> <<>>]

InitSettingsIdle ==
    /\ termios = None
    /\ lastOp = None
    /\ lastBaud = None

InitPollIdle == poll = None

InitErrorIdle == mapped = None

\* no port, and a device nobody looks at
InitIoIdle ==
    /\ target = "linux"
    /\ port = None
    /\ dev = None
    /\ rx = 0
    /\ tx = 0
    /\ ioPc = "idle"
    /\ io = None
    /\ pins = {}

Init == InitPort /\ InitSettingsIdle /\ InitPollIdle /\ InitErrorIdle /\ InitIoIdle

Next ==
    \/ \E p \in Procs : \E pth \in Paths : OpenBegin(p, pth)
    \/ \E p \in Procs : OsOpen(p)
    \/ \E p \in Procs : Tiocexcl(p)
    \/ \E p \in Procs : ClearNonblock(p)
    \/ \E p \in Procs : ReadSettings(p)
    \/ \E p \in Procs : WriteAttributes(p)
    \/ \E p \in Procs : FlushBuffers(p)
    \/ \E p \in Procs : DropRelease(p)
    \/ \E p \in Procs : DropClose(p)

Spec == Init /\ [][Next]_vars

(***************************************************************************)
(* Claims on the lifecycle                                                 *)
(***************************************************************************)
Live(p) == pc[p] = "live"

\* C1: no two ports hold the same device at once: while one process holds a
\* live TTYPort on the device, no other process holds one (its open failed).
C1_NoTwoLivePorts ==
    \A p \in Procs : \A q \in Procs : (p # q /\ Live(p)) => ~Live(q)

Failed(p) == pc[p] = "done" /\ result[p].kind \notin {"none", "Ok"}

\* the position of the first failed call in a log (0: none)
FirstFailure(l) ==
    IF \E i \in 1..Len(l) : ~l[i].ok
      THEN CHOOSE i \in 1..Len(l) : ~l[i].ok /\ \A j \in 1..(i - 1) : l[j].ok
      ELSE 0

\* C2: a failed open leaves no resource held.  When open has returned an
\* error: the process holds no descriptor; the calls made are the steps of
\* open in order up to the one that failed and none after it; the error
\* returned is that step's; a descriptor that had been obtained saw the
\* exclusive release and then exactly one close; and with no other holder
\* the device is not left in exclusive mode.
C2_FailedOpenHoldsNothing ==
    \A p \in Procs : Failed(p) =>
        LET l == log[p]
            k == FirstFailure(l)
        IN  /\ ~fdOpen[p]
            /\ IF path[p] = "nul"
                 THEN l = <<>> /\ result[p] = from_raw_os_error(EINVAL)
                 ELSE /\ k \in 1..Len(OpenCalls)
                      /\ \A i \in 1..k : l[i].call = OpenCalls[i]
                      /\ result[p] = from_raw_os_error(l[k].errno)
                      /\ IF k = 1
                           THEN Len(l) = 1
                           ELSE /\ Len(l) = k + 2
                                /\ l[k + 1].call = "TIOCNXCL"
                                /\ l[k + 2].call = "close"
            /\ ((\A q \in Procs : ~fdOpen[q]) => ~devExcl)

\* C2 witness: an open that failed at the discard of the buffers, its last
\* step, after the exclusive request had succeeded, and has returned.
C2_Witness ==
    \E p \in Procs :
        /\ Failed(p)
        /\ Len(log[p]) = 8
        /\ log[p][6].call = "TCIOFLUSH" /\ ~log[p][6].ok
        /\ log[p][8].call = "close"

Calls(l, call) == {i \in 1..Len(l) : l[i].call = call}

\* C3: destruction issues the exclusive release and then the close, each
\* exactly once and in that order, on every exit path; a failed release is
\* not surfaced and does not prevent the close.  In every state a close is
\* the call right after the one release; once the port is gone (after a
\* failed open that had a descriptor, or after a live port was dropped) both
\* have happened, the descriptor is closed, and what open returned is not
\* changed by the release.
C3_DropReleasesThenCloses ==
    \A p \in Procs :
        LET l == log[p]
            rel == Calls(l, "TIOCNXCL")
            cls == Calls(l, "close")
            k == FirstFailure(SubSeq(l, 1, IF Len(l) > Len(OpenCalls)
                                             THEN Len(OpenCalls) ELSE Len(l)))
        IN  /\ Cardinality(rel) <= 1 /\ Cardinality(cls) <= 1
            /\ \A i \in cls : i > 1 /\ (i - 1) \in rel /\ i = Len(l)
            /\ fdOpen[p] => cls = {}
            /\ (pc[p] = "done" /\ Calls(l, "open") # {} /\ l[1].ok) =>
                  /\ Cardinality(rel) = 1 /\ Cardinality(cls) = 1
                  /\ ~fdOpen[p]
                  /\ result[p] = (IF \E i \in 1..Len(l) :
                                        l[i].call \in {"TIOCEXCL", "F_SETFL", "TCGETS2",
                                                       "TCSETS2", "TCIOFLUSH"} /\ ~l[i].ok
                                    THEN from_raw_os_error(l[k].errno)
                                    ELSE OkResult)

\* C3 witness: a port that was live has been dropped, its release failed and
\* the close followed.
C3_Witness ==
    \E p \in Procs :
        /\ pc[p] = "done" /\ result[p] = OkResult
        /\ Len(log[p]) = 8
        /\ log[p][7].call = "TIOCNXCL" /\ ~log[p][7].ok
        /\ log[p][8].call = "close"

\* C18: a malformed device identifier.  An open of a path with an embedded
\* NUL has returned as soon as it was called, with InvalidInput (the mapped
\* EINVAL); it made no system call at all, so it opened no descriptor,
\* asked for no exclusive access and touched no device state, whatever the
\* state of the device and of the other processes.
C18_MalformedPathIsInvalidInput ==
    \A p \in Procs : path[p] = "nul" =>
        /\ pc[p] = "done"
        /\ result[p].kind = "InvalidInput"
        /\ result[p] = from_raw_os_error(EINVAL)
        /\ log[p] = <<>>
        /\ ~fdOpen[p]

\* C18 witness: an open of a malformed path has returned while another
\* process holds the device live and in exclusive mode (where a well-formed
\* path would have been answered NoDevice).
C18_Witness ==
    \E p \in Procs : \E q \in Procs :
        /\ path[p] = "nul" /\ pc[p] = "done" /\ result[p].kind = "InvalidInput"
        /\ Live(q) /\ devExcl

(***************************************************************************)
(* Raw Attribute Backend, extended variant (termios2.rs) and Device        *)
(* Settings (tty.rs, TTYSettings).  Flag values are those of Linux on      *)
(* x86 / arm (the first TCGETS2 / TCSETS2 pair of termios2.rs).            *)
(***************************************************************************)
IBSHIFT == 16
BOTHER == W(4096)
CBAUD == W(4111)

B0 == W(0)
B50 == W(1)
B75 == W(2)
B110 == W(3)
B134 == W(4)
B150 == W(5)
B200 == W(6)
B300 == W(7)
B600 == W(8)
B1200 == W(9)
B1800 == W(10)
B2400 == W(11)
B4800 == W(12)
B9600 == W(13)
B19200 == W(14)
B38400 == W(15)
B57600 == W(4097)
B115200 == W(4098)
B230400 == W(4099)
B460800 == W(4100)
B500000 == W(4101)
B576000 == W(4102)
B921600 == W(4103)
B1000000 == W(4104)
B1152000 == W(4105)
B1500000 == W(4106)
B2000000 == W(4107)
B2500000 == W(4108)
B3000000 == W(4109)
B3500000 == W(4110)
B4000000 == W(4111)

\* c_cflag
CSIZE == W(48)
CS5 == W(0)
CS6 == W(16)
CS7 == W(32)
CS8 == W(48)
CSTOPB == W(64)
CREAD == W(128)
PARENB == W(256)
PARODD == W(512)
CLOCAL == W(2048)
CRTSCTS == {31}
\* c_iflag
IGNBRK == W(1)
IGNPAR == W(4)
INPCK == W(16)
INLCR == W(64)
IGNCR == W(128)
ICRNL == W(256)
IXON == W(1024)
IXOFF == W(4096)

\* core::BaudRate: a named rate or BaudOther(usize)
Named(tag) == [tag |-> tag, n |-> {}]
BaudOther(n) == [tag |-> "BaudOther", n |-> n]

\* termios::Speed
Standard(code) == [tag |-> "Standard", v |-> code]
Custom(baud) == [tag |-> "Custom", v |-> baud]

get_speed(t) ==
    LET ospeed == IF And(t.c_cflag, CBAUD) = BOTHER
                    THEN Custom(t.c_ospeed)
                    ELSE Standard(And(t.c_cflag, CBAUD))
        isub == And(Shr32(t.c_cflag, IBSHIFT), CBAUD)
        ispeed == IF isub = B0 THEN ospeed
                  ELSE IF isub = BOTHER THEN Custom(t.c_ispeed)
                  ELSE Standard(isub)
    IN  <<ospeed, ispeed>>

\* set_speed without the clearing of the two sub-fields
set_speed_noclear(t, speed) ==
    IF speed.tag = "Standard"
      THEN [t EXCEPT !.c_cflag = Or(@, speed.v)]
      ELSE [t EXCEPT !.c_cflag = Or(@, BOTHER), !.c_ospeed = speed.v]

\* set_speed clearing the output sub-field only
set_speed_outonly(t, speed) ==
    LET same == And(t.c_cflag, Not32(CBAUD))
    IN  IF speed.tag = "Standard"
          THEN [t EXCEPT !.c_cflag = Or(same, speed.v)]
          ELSE [t EXCEPT !.c_cflag = Or(same, BOTHER), !.c_ospeed = speed.v]

set_speed(t, speed) ==
    LET cleared == And(t.c_cflag, Not32(Or(CBAUD, Shl32(CBAUD, IBSHIFT))))
        same == Or(cleared, Shl32(B0, IBSHIFT))
    IN  IF speed.tag = "Standard"
          THEN [t EXCEPT !.c_cflag = Or(same, speed.v)]
          ELSE [t EXCEPT !.c_cflag = Or(same, BOTHER), !.c_ospeed = speed.v]

\* the arms of `match baud` in baud_rate, linux
DecodeArms ==
    << <<B50, BaudOther(W(50))>>,
       <<B75, BaudOther(W(75))>>,
       <<B110, Named("Baud110")>>,
       <<B134, BaudOther(W(134))>>,
       <<B150, BaudOther(W(150))>>,
       <<B200, BaudOther(W(200))>>,
       <<B300, Named("Baud300")>>,
       <<B600, Named("Baud600")>>,
       <<B1200, Named("Baud1200")>>,
       <<B1800, BaudOther(W(1800))>>,
       <<B2400, Named("Baud2400")>>,
       <<B4800, Named("Baud4800")>>,
       <<B9600, Named("Baud9600")>>,
       <<B19200, Named("Baud19200")>>,
       <<B38400, Named("Baud38400")>>,
       <<B57600, Named("Baud57600")>>,
       <<B115200, Named("Baud115200")>>,
       <<B230400, BaudOther(W(230400))>>,
       <<B460800, BaudOther(W(460800))>>,
       <<B500000, BaudOther(W(500000))>>,
       <<B576000, BaudOther(W(576000))>>,
       <<B921600, BaudOther(W(921600))>>,
       <<B1000000, BaudOther(W(1000000))>>,
       <<B1152000, BaudOther(W(1152000))>>,
       <<B1500000, BaudOther(W(1500000))>>,
       <<B2000000, BaudOther(W(2000000))>>,
       <<B2500000, BaudOther(W(2500000))>>,
       <<B3000000, BaudOther(W(3000000))>>,
       <<B3500000, BaudOther(W(3500000))>>,
       <<B4000000, BaudOther(W(4000000))>> >>

\* the arms of `match baud_rate` in set_baud_rate, linux, before the catch-all
EncodeArms ==
    << <<BaudOther(W(50)), B50>>,
       <<BaudOther(W(75)), B75>>,
       <<Named("Baud110"), B110>>,
       <<BaudOther(W(134)), B134>>,
       <<BaudOther(W(150)), B150>>,
       <<BaudOther(W(200)), B200>>,
       <<Named("Baud300"), B300>>,
       <<Named("Baud600"), B600>>,
       <<Named("Baud1200"), B1200>>,
       <<BaudOther(W(1800)), B1800>>,
       <<Named("Baud2400"), B2400>>,
       <<Named("Baud4800"), B4800>>,
       <<Named("Baud9600"), B9600>>,
       <<Named("Baud19200"), B19200>>,
       <<Named("Baud38400"), B38400>>,
       <<Named("Baud57600"), B57600>>,
       <<Named("Baud115200"), B115200>>,
       <<BaudOther(W(230400)), B230400>>,
       <<BaudOther(W(460800)), B460800>>,
       <<BaudOther(W(500000)), B500000>>,
       <<BaudOther(W(576000)), B576000>>,
       <<BaudOther(W(921600)), B921600>>,
       <<BaudOther(W(1000000)), B1000000>>,
       <<BaudOther(W(1152000)), B1152000>>,
       <<BaudOther(W(1500000)), B1500000>>,
       <<BaudOther(W(2000000)), B2000000>>,
       <<BaudOther(W(2500000)), B2500000>>,
       <<BaudOther(W(3000000)), B3000000>>,
       <<BaudOther(W(3500000)), B3500000>>,
       <<BaudOther(W(4000000)), B4000000>> >>

Arm(arms, key) ==
    LET hits == {i \in 1..Len(arms) : arms[i][1] = key}
    IN  IF hits = {} THEN None
        ELSE Some(arms[CHOOSE i \in hits : \A j \in hits : i <= j][2])

\* baud_rate without the comparison of the two speeds
baud_rate_nocheck(t) ==
    LET ospeed == get_speed(t)[1]
    IN  IF ospeed.tag = "Standard" THEN Arm(DecodeArms, ospeed.v)
        ELSE Some(BaudOther(ospeed.v))

baud_rate(t) ==
    LET ospeed == get_speed(t)[1]
        ispeed == get_speed(t)[2]
    IN  IF ospeed # ispeed THEN None
        ELSE IF ospeed.tag = "Standard" THEN Arm(DecodeArms, ospeed.v)
        ELSE Some(BaudOther(ospeed.v))

char_size(t) ==
    LET size == And(t.c_cflag, CSIZE)
    IN  CASE size = CS8 -> Some("Bits8")
          [] size = CS7 -> Some("Bits7")
          [] size = CS6 -> Some("Bits6")
          [] size = CS5 -> Some("Bits5")
          [] OTHER -> None

parity(t) ==
    IF And(t.c_cflag, PARENB) # {}
      THEN IF And(t.c_cflag, PARODD) # {} THEN Some("ParityOdd") ELSE Some("ParityEven")
      ELSE Some("ParityNone")

stop_bits(t) ==
    IF And(t.c_cflag, CSTOPB) # {} THEN Some("Stop2") ELSE Some("Stop1")

flow_control(t) ==
    IF And(t.c_cflag, CRTSCTS) # {} THEN Some("FlowHardware")
    ELSE IF And(t.c_iflag, Or(IXON, IXOFF)) # {} THEN Some("FlowSoftware")
    ELSE Some("FlowNone")

\* the Speed set_baud_rate hands to termios::set_speed
EncodeSpeed(b) ==
    IF Arm(EncodeArms, b) # None THEN Standard(Arm(EncodeArms, b)[1])
    ELSE Custom(AsU32(b.n))

set_baud_rate(t, b) == set_speed(t, EncodeSpeed(b))

CharSizeFlag(v) ==
    CASE v = "Bits5" -> CS5 [] v = "Bits6" -> CS6 [] v = "Bits7" -> CS7 [] v = "Bits8" -> CS8

\* set_char_size without `c_cflag &= !CSIZE`
set_char_size_noclear(t, v) == [t EXCEPT !.c_cflag = Or(@, CharSizeFlag(v))]

\* set_char_size whose mask also covers CSTOPB
set_char_size_wide(t, v) ==
    [t EXCEPT !.c_cflag = Or(And(@, Not32(Or(CSIZE, CSTOPB))), CharSizeFlag(v))]

set_char_size(t, v) ==
    [t EXCEPT !.c_cflag = Or(And(@, Not32(CSIZE)), CharSizeFlag(v))]

\* set_parity whose ParityNone mask also covers CSTOPB
set_parity_wide(t, v) ==
    CASE v = "ParityNone" ->
           [t EXCEPT !.c_cflag = And(@, Not32(Or(Or(PARENB, PARODD), CSTOPB))),
                     !.c_iflag = Or(And(@, Not32(INPCK)), IGNPAR)]
      [] v = "ParityOdd" ->
           [t EXCEPT !.c_cflag = Or(@, Or(PARENB, PARODD)),
                     !.c_iflag = And(Or(@, INPCK), Not32(IGNPAR))]
      [] v = "ParityEven" ->
           [t EXCEPT !.c_cflag = Or(And(@, Not32(PARODD)), PARENB),
                     !.c_iflag = And(Or(@, INPCK), Not32(IGNPAR))]

set_parity(t, v) ==
    CASE v = "ParityNone" ->
           [t EXCEPT !.c_cflag = And(@, Not32(Or(PARENB, PARODD))),
                     !.c_iflag = Or(And(@, Not32(INPCK)), IGNPAR)]
      [] v = "ParityOdd" ->
           [t EXCEPT !.c_cflag = Or(@, Or(PARENB, PARODD)),
                     !.c_iflag = And(Or(@, INPCK), Not32(IGNPAR))]
      [] v = "ParityEven" ->
           [t EXCEPT !.c_cflag = Or(And(@, Not32(PARODD)), PARENB),
                     !.c_iflag = And(Or(@, INPCK), Not32(IGNPAR))]

\* set_stop_bits on bit 0o10000 in place of CSTOPB (0o100)
set_stop_bits_cbaudex(t, v) ==
    CASE v = "Stop1" -> [t EXCEPT !.c_cflag = And(@, Not32(W(4096)))]
      [] v = "Stop2" -> [t EXCEPT !.c_cflag = Or(@, W(4096))]

\* set_stop_bits whose Stop2 arm has `^=` in place of `|=`
set_stop_bits_toggle(t, v) ==
    CASE v = "Stop1" -> [t EXCEPT !.c_cflag = And(@, Not32(CSTOPB))]
      [] v = "Stop2" -> [t EXCEPT !.c_cflag = (@ \ CSTOPB) \cup (CSTOPB \ @)]

set_stop_bits(t, v) ==
    CASE v = "Stop1" -> [t EXCEPT !.c_cflag = And(@, Not32(CSTOPB))]
      [] v = "Stop2" -> [t EXCEPT !.c_cflag = Or(@, CSTOPB)]

set_flow_control(t, v) ==
    CASE v = "FlowNone" ->
           [t EXCEPT !.c_iflag = And(@, Not32(Or(IXON, IXOFF))),
                     !.c_cflag = And(@, Not32(CRTSCTS))]
      [] v = "FlowSoftware" ->
           [t EXCEPT !.c_iflag = Or(@, Or(IXON, IXOFF)),
                     !.c_cflag = And(@, Not32(CRTSCTS))]
      [] v = "FlowHardware" ->
           [t EXCEPT !.c_iflag = And(@, Not32(Or(IXON, IXOFF))),
                     !.c_cflag = Or(@, CRTSCTS)]

(***************************************************************************)
(* SpecSettings: a TTYSettings over arbitrary memory (the tests build it   *)
(* with mem::uninitialized()), and every call of its interface.            *)
(***************************************************************************)
\* custom rates: 0, two rates outside the enumeration, and one that needs
\* more than 32 bits (2^32 + 250000)
CustomRates == {W(0), W(31250), W(250000), W(250000) \cup {32}}

BaudRates ==
    {EncodeArms[i][1] : i \in 1..Len(EncodeArms)} \cup {BaudOther(n) : n \in CustomRates}
CharSizes == {"Bits5", "Bits6", "Bits7", "Bits8"}
Parities == {"ParityNone", "ParityOdd", "ParityEven"}
StopBitsValues == {"Stop1", "Stop2"}
FlowControls == {"FlowNone", "FlowSoftware", "FlowHardware"}

\* arbitrary memory: each speed sub-field and each speed word drawn from the
\* values the decoder tells apart, every other bit of the block all 0 or all 1
RawSubfields == {B0, B600, B9600, BOTHER, B4000000}
RawSpeedWords == {<<W(0), W(0)>>, <<W(250000), W(250000)>>, <<W(250000), W(31250)>>}
RawFill == {{}, U32}

RawBlock(out, in, words, fill) ==
    [c_iflag |-> fill,
     c_oflag |-> fill,
     c_cflag |-> Or(Or(out, Shl32(in, IBSHIFT)),
                    And(fill, Not32(Or(CBAUD, Shl32(CBAUD, IBSHIFT))))),
     c_lflag |-> fill,
     c_ospeed |-> words[1],
     c_ispeed |-> words[2]]

RawBlocks ==
    {RawBlock(out, in, words, fill) :
        out \in RawSubfields, in \in RawSubfields,
        words \in RawSpeedWords, fill \in RawFill}

Call(op, arg) == [op |-> op, arg |-> arg]

\* a settings call leaves every port alone
SettingsFrame == UNCHANGED <<pc, path, fdOpen, devExcl, result, log, poll, mapped, ioVars>>

SetBaudRate(b) ==
    /\ termios' = set_baud_rate(termios, b)
    /\ lastOp' = Call("set_baud_rate", b)
    /\ lastBaud' = Some([rate |-> b, speed |-> EncodeSpeed(b)])
    /\ SettingsFrame

SetCharSize(v) ==
    /\ termios' = set_char_size(termios, v)
    /\ lastOp' = Call("set_char_size", v)
    /\ UNCHANGED lastBaud
    /\ SettingsFrame

SetParity(v) ==
    /\ termios' = set_parity(termios, v)
    /\ lastOp' = Call("set_parity", v)
    /\ UNCHANGED lastBaud
    /\ SettingsFrame

SetStopBits(v) ==
    /\ termios' = set_stop_bits(termios, v)
    /\ lastOp' = Call("set_stop_bits", v)
    /\ UNCHANGED lastBaud
    /\ SettingsFrame

SetFlowControl(v) ==
    /\ termios' = set_flow_control(termios, v)
    /\ lastOp' = Call("set_flow_control", v)
    /\ UNCHANGED lastBaud
    /\ SettingsFrame

\* baud_rate(): lastOp.arg holds what it returned
GetBaudRate ==
    /\ lastOp' = Call("baud_rate", baud_rate(termios))
    /\ UNCHANGED <<termios, lastBaud>>
    /\ SettingsFrame

\* the blocks and rates of SpecSettings, where the five setters interleave:
\* a named rate with a low code, one with a high code, the code with every
\* CBAUD bit set, and two custom rates
SettingsBlocks ==
    {RawBlock(out, in, words, fill) :
        out \in {B0, BOTHER, B4000000}, in \in {B0, B9600},
        words \in {<<W(0), W(0)>>, <<W(250000), W(31250)>>}, fill \in RawFill}

SettingsRates ==
    {Named("Baud600"), Named("Baud115200"), BaudOther(W(4000000)),
     BaudOther(W(31250)), BaudOther(W(250000))}

InitSettings ==
    /\ InitPort
    /\ InitPollIdle
    /\ InitErrorIdle
    /\ InitIoIdle
    /\ termios \in SettingsBlocks
    /\ lastOp = Call("uninitialized", None)
    /\ lastBaud = None

NextSettings ==
    \/ \E b \in SettingsRates : SetBaudRate(b)
    \/ \E v \in CharSizes : SetCharSize(v)
    \/ \E v \in Parities : SetParity(v)
    \/ \E v \in StopBitsValues : SetStopBits(v)
    \/ \E v \in FlowControls : SetFlowControl(v)
    \/ GetBaudRate

\* every setter interleaved with every other, over arbitrary memory
SpecSettings == InitSettings /\ [][NextSettings]_vars

InitCodec ==
    /\ InitPort
    /\ InitPollIdle
    /\ InitErrorIdle
    /\ InitIoIdle
    /\ termios \in RawBlocks
    /\ lastOp = Call("uninitialized", None)
    /\ lastBaud = None

NextCodec ==
    \/ \E b \in BaudRates : SetBaudRate(b)
    \/ GetBaudRate

\* the baud-rate codec alone: every rate of the enumeration and the custom
\* rates, over arbitrary memory
SpecCodec == InitCodec /\ [][NextCodec]_vars

(***************************************************************************)
(* Claims on the settings                                                  *)
(***************************************************************************)
IsStandardRate(b) == Arm(EncodeArms, b) # None
SpeedBits == Or(CBAUD, Shl32(CBAUD, IBSHIFT))

\* C4: baud-rate round trip, last write wins.  From any raw block, after
\* set_baud_rate calls the last of which set a rate B of the enumeration,
\* baud_rate() returns Some(B), and the speed bits of c_cflag are exactly
\* B's code: no bit of an earlier rate or of the raw block survives.
C4_StandardBaudLastWriteWins ==
    (lastBaud # None /\ IsStandardRate(lastBaud[1].rate)) =>
        /\ baud_rate(termios) = Some(lastBaud[1].rate)
        /\ And(termios.c_cflag, SpeedBits) = Arm(EncodeArms, lastBaud[1].rate)[1]

\* C4 witness: Baud1200 was set last on a block that began with both
\* sub-fields at OTHER and on which the custom rate 31250 had been set
\* before (c_ospeed still carries it; no raw block starts with it).
C4_Witness ==
    /\ lastBaud = Some([rate |-> Named("Baud1200"), speed |-> Standard(B1200)])
    /\ termios.c_ospeed = W(31250)
    /\ termios.c_ispeed = W(31250)
    /\ baud_rate(termios) = Some(Named("Baud1200"))

\* C5: custom baud-rate round trip is exact.  After set_baud_rate(BaudOther(n))
\* with n outside the enumeration, baud_rate() returns Some(BaudOther(n)) with
\* the very n supplied, for every n of usize.
C5_CustomBaudExact ==
    (lastBaud # None /\ ~IsStandardRate(lastBaud[1].rate)) =>
        baud_rate(termios) = Some(lastBaud[1].rate)

NonBaudGetters(t) ==
    <<char_size(t), parity(t), stop_bits(t), flow_control(t)>>

\* C6: extended backend.  Once set_speed(Custom(n)) has been applied, after
\* any sequence of setters of the other fields get_speed yields
\* (Custom(n), Custom(n)); and encoding the same Custom(n) again changes
\* neither the decoded speeds nor the other fields' values.
C6_CustomSpeedSurvivesOtherSetters ==
    [][ (lastBaud' # None /\ lastBaud'[1].speed.tag = "Custom") =>
          /\ get_speed(termios') = <<lastBaud'[1].speed, lastBaud'[1].speed>>
          /\ (lastBaud' = lastBaud /\ lastOp'.op = "set_baud_rate") =>
                /\ get_speed(termios') = get_speed(termios)
                /\ NonBaudGetters(termios') = NonBaudGetters(termios) ]_vars

\* C6 witness: Custom(31250) was encoded on a block whose input sub-field
\* was B9600, then each of the four other fields was set, flow control last.
C6_Witness ==
    /\ lastBaud # None /\ lastBaud[1].speed = Custom(W(31250))
    /\ lastOp = Call("set_flow_control", "FlowHardware")
    /\ NonBaudGetters(termios) =
          <<Some("Bits6"), Some("ParityOdd"), Some("Stop2"), Some("FlowHardware")>>
    /\ termios.c_ispeed = W(31250) /\ termios.c_lflag = U32
    /\ get_speed(termios) = <<Custom(W(31250)), Custom(W(31250))>>

\* C7: round trip of the four other fields, last write wins.  From any raw
\* block, right after a call of a field's setter with v (whatever calls came
\* before), that field's getter returns Some(v).
C7_FieldRoundTrip ==
    /\ lastOp.op = "set_char_size" => char_size(termios) = Some(lastOp.arg)
    /\ lastOp.op = "set_parity" => parity(termios) = Some(lastOp.arg)
    /\ lastOp.op = "set_stop_bits" => stop_bits(termios) = Some(lastOp.arg)
    /\ lastOp.op = "set_flow_control" => flow_control(termios) = Some(lastOp.arg)

\* C7 witness: Bits5, the all-zero code, has just been set on a block whose
\* memory was all ones and on which the other three fields were set too.
C7_Witness ==
    /\ lastOp = Call("set_char_size", "Bits5")
    /\ termios.c_lflag = U32
    /\ NonBaudGetters(termios) =
          <<Some("Bits5"), Some("ParityNone"), Some("Stop1"), Some("FlowNone")>>

FieldOf(op) ==
    CASE op = "set_baud_rate" -> 1
      [] op = "set_char_size" -> 2
      [] op = "set_parity" -> 3
      [] op = "set_stop_bits" -> 4
      [] op = "set_flow_control" -> 5
      [] OTHER -> 0

Getters(t) ==
    <<baud_rate(t), char_size(t), parity(t), stop_bits(t), flow_control(t)>>

\* C8: field independence.  A call of the setter of one field, with any
\* value on any block, leaves what the getter of every other field returns
\* unchanged.
C8_FieldIndependence ==
    [][ \A g \in 1..5 :
          g # FieldOf(lastOp'.op) => Getters(termios')[g] = Getters(termios)[g] ]_vars

\* C8 witness: a baud rate has just been set on a block where the four other
\* fields hold values set before, none of them the all-zero or all-one one.
C8_Witness ==
    /\ lastOp = Call("set_baud_rate", Named("Baud115200"))
    /\ Getters(termios) =
          <<Some(Named("Baud115200")), Some("Bits7"), Some("ParityEven"),
            Some("Stop2"), Some("FlowSoftware")>>
    /\ termios.c_cflag \cap {31} = {}

\* every call of a setter, and what it makes of a block
SetterCalls ==
    {Call("set_baud_rate", b) : b \in SettingsRates}
        \cup {Call("set_char_size", v) : v \in CharSizes}
        \cup {Call("set_parity", v) : v \in Parities}
        \cup {Call("set_stop_bits", v) : v \in StopBitsValues}
        \cup {Call("set_flow_control", v) : v \in FlowControls}

ApplySetter(c, t) ==
    CASE c.op = "set_baud_rate" -> set_baud_rate(t, c.arg)
      [] c.op = "set_char_size" -> set_char_size(t, c.arg)
      [] c.op = "set_parity" -> set_parity(t, c.arg)
      [] c.op = "set_stop_bits" -> set_stop_bits(t, c.arg)
      [] c.op = "set_flow_control" -> set_flow_control(t, c.arg)

\* C25: setters of different fields commute.  On every block, for every
\* call f of a setter that is made and every call g of a setter of another
\* field, with any arguments, the block after f then g is bit for bit the
\* block after g then f.
C25_SettersCommute ==
    [][ lastOp' \in SetterCalls =>
          /\ termios' = ApplySetter(lastOp', termios)
          /\ \A g \in SetterCalls :
                g.op # lastOp'.op =>
                    ApplySetter(g, termios') = ApplySetter(lastOp', ApplySetter(g, termios)) ]_vars

\* C25 witness: a block of all-ones memory on which every field has been
\* set, and on which set_char_size(Bits5) and set_stop_bits(Stop1) each
\* change bits, and change the same block in either order.
C25_Witness ==
    /\ lastOp = Call("set_flow_control", "FlowHardware")
    /\ termios.c_lflag = U32
    /\ Getters(termios) =
          <<Some(BaudOther(W(250000))), Some("Bits7"), Some("ParityOdd"),
            Some("Stop2"), Some("FlowHardware")>>
    /\ set_char_size(termios, "Bits5") # termios
    /\ set_stop_bits(termios, "Stop1") # termios
    /\ set_stop_bits(set_char_size(termios, "Bits5"), "Stop1") # set_char_size(termios, "Bits5")
    /\ set_stop_bits(set_char_size(termios, "Bits5"), "Stop1")
          = set_char_size(set_stop_bits(termios, "Stop1"), "Bits5")

RecognisedCodes == {DecodeArms[i][1] : i \in 1..Len(DecodeArms)}

\* C9: mismatch policy.  On every block whose decoded output and input
\* speeds differ, baud_rate() returns None; it returns Some only when the
\* two are equal and the speed is a recognised standard code or custom.
C9_MismatchGivesNone ==
    lastOp.op = "baud_rate" =>
        LET sp == get_speed(termios)
        IN  /\ sp[1] # sp[2] => lastOp.arg = None
            /\ lastOp.arg # None =>
                  /\ sp[1] = sp[2]
                  /\ (sp[1].tag = "Custom" \/ sp[1].v \in RecognisedCodes)

\* C9 witness: baud_rate() has been asked on a block whose output speed is
\* the standard B9600 and whose input speed is custom, and answered None.
C9_Witness ==
    /\ lastOp = Call("baud_rate", None)
    /\ get_speed(termios)[1] = Standard(B9600)
    /\ get_speed(termios)[2].tag = "Custom"

\* C22: the input rate tracks the output rate.  After set_baud_rate, from
\* any block, with s the Speed it handed to set_speed: the shifted input
\* sub-field is B0 (same as output), the output sub-field is the code of s,
\* or BOTHER with c_ospeed the custom value, get_speed gives (s, s), and
\* baud_rate() does not answer None.
C22_InputTracksOutput ==
    lastBaud # None =>
        LET s == lastBaud[1].speed
        IN  /\ And(Shr32(termios.c_cflag, IBSHIFT), CBAUD) = B0
            /\ s.tag = "Standard" => And(termios.c_cflag, CBAUD) = s.v
            /\ s.tag = "Custom" =>
                  (And(termios.c_cflag, CBAUD) = BOTHER /\ termios.c_ospeed = s.v)
            /\ get_speed(termios) = <<s, s>>
            /\ baud_rate(termios) # None
            /\ lastOp.op = "baud_rate" => lastOp.arg # None

\* C22 witness: baud_rate() has answered the custom rate set on a block of
\* all-ones memory whose input speed word still differs from the output one.
C22_Witness ==
    /\ lastBaud # None
    /\ lastOp = Call("baud_rate", Some(BaudOther(W(250000))))
    /\ termios.c_ospeed = W(250000) /\ termios.c_ispeed = W(31250)
    /\ termios.c_lflag = U32

\* a named rate is one of 110 .. 115200; BaudOther(n) is positive unless n = 0
PositiveRate(b) == b.tag # "BaudOther" \/ b.n # W(0)

\* C19: no baud rate is zero.  Every rate set_baud_rate has accepted (it
\* returned Ok) and every rate baud_rate() reports inside Some is strictly
\* positive: BaudOther(0) is neither stored as the configured rate nor
\* reported.
C19_NoZeroBaudRate ==
    /\ lastBaud # None => PositiveRate(lastBaud[1].rate)
    /\ (lastOp.op = "baud_rate" /\ lastOp.arg # None) => PositiveRate(lastOp.arg[1])

(***************************************************************************)
(* Readiness Waiter (poll.rs)                                              *)
(***************************************************************************)
POLLIN == W(1)
POLLPRI == W(2)
POLLOUT == W(4)
POLLERR == W(8)
POLLHUP == W(16)
POLLNVAL == W(32)

ENOMEM == 12

IoError(kind, errno) == [kind |-> kind, msg |-> errno]
IoOk == [kind |-> "Ok", msg |-> 0]

\* wait_fd with the hangup test ahead of the interest test
wait_fd_hangup_first(events, wait, errno, revents) ==
    IF wait < 0
      THEN IoError(IF errno = EINTR THEN "Interrupted" ELSE "Other", errno)
    ELSE IF wait = 0 THEN IoError("TimedOut", 0)
    ELSE IF And(revents, Or(POLLHUP, POLLNVAL)) # {} THEN IoError("BrokenPipe", EPIPE)
    ELSE IF And(revents, events) # {} THEN IoOk
    ELSE IoError("Other", EIO)

\* wait_fd after do_poll has returned `wait`, left `errno` and filled
\* pollfd.revents
wait_fd(events, wait, errno, revents) ==
    IF wait < 0
      THEN IoError(IF errno = EINTR THEN "Interrupted" ELSE "Other", errno)
    ELSE IF wait = 0 THEN IoError("TimedOut", 0)
    ELSE IF And(revents, events) # {} THEN IoOk
    ELSE IF And(revents, Or(POLLHUP, POLLNVAL)) # {} THEN IoError("BrokenPipe", EPIPE)
    ELSE IoError("Other", EIO)

PollFlags == POLLIN \cup POLLPRI \cup POLLOUT \cup POLLERR \cup POLLHUP \cup POLLNVAL

\* What ppoll on one descriptor can answer: -1 with an errno and revents
\* left at 0; 0 on a timeout; 1 with some bit of revents set.  Every
\* non-empty combination of the six flags is taken as possible.
PollOutcomes ==
    {[wait |-> -1, errno |-> e, revents |-> {}] : e \in {EINTR, EINVAL, ENOMEM}}
    \cup {[wait |-> 0, errno |-> 0, revents |-> {}]}
    \cup {[wait |-> 1, errno |-> 0, revents |-> r] : r \in (SUBSET PollFlags) \ {{}}}

PollFrame ==
    UNCHANGED <<pc, path, fdOpen, devExcl, result, log, termios, lastOp, lastBaud,
                mapped, ioVars>>

WaitFd(events) ==
    /\ \E o \in PollOutcomes :
         poll' = Some([events |-> events, wait |-> o.wait, errno |-> o.errno,
                       revents |-> o.revents,
                       ret |-> wait_fd(events, o.wait, o.errno, o.revents)])
    /\ PollFrame

\* wait_fd(fd, POLLIN, timeout)
WaitReadFd == WaitFd(POLLIN)

\* wait_fd(fd, POLLOUT, timeout)
WaitWriteFd == WaitFd(POLLOUT)

InitPoll == InitPort /\ InitSettingsIdle /\ InitPollIdle /\ InitErrorIdle /\ InitIoIdle

NextPoll == WaitReadFd \/ WaitWriteFd

SpecPoll == InitPoll /\ [][NextPoll]_vars

\* C10: the classification of a wait is total and ordered.  A failed wait
\* gives Interrupted on EINTR and Other otherwise; no ready event gives
\* TimedOut; otherwise the requested interest among the events gives success
\* whatever else is reported; otherwise hangup or invalid handle gives
\* BrokenPipe; everything else gives Other.  Each wait has the one outcome
\* its case names.
C10_WaitClassification ==
    poll # None =>
        LET r == poll[1]
            wanted == And(r.revents, r.events) # {}
            gone == And(r.revents, Or(POLLHUP, POLLNVAL)) # {}
        IN  /\ r.ret.kind \in {"Ok", "Interrupted", "Other", "TimedOut", "BrokenPipe"}
            /\ (r.wait < 0 /\ r.errno = EINTR) => r.ret.kind = "Interrupted"
            /\ (r.wait < 0 /\ r.errno # EINTR) => r.ret.kind = "Other"
            /\ r.wait = 0 => r.ret.kind = "TimedOut"
            /\ (r.wait > 0 /\ wanted) => r.ret.kind = "Ok"
            /\ (r.wait > 0 /\ ~wanted /\ gone) => r.ret.kind = "BrokenPipe"
            /\ (r.wait > 0 /\ ~wanted /\ ~gone) => r.ret.kind = "Other"

\* C10 witness: a read wait came back with POLLIN and POLLHUP both set and
\* was classified as success.
C10_Witness ==
    /\ poll # None
    /\ poll[1].events = POLLIN
    /\ poll[1].revents = Or(POLLIN, POLLHUP)
    /\ poll[1].ret = IoOk

(***************************************************************************)
(* SpecError: the Error Mapper applied to every error code                 *)
(***************************************************************************)
\* the highest error code looked at (Linux defines 1..133)
MaxErrno == 133

\* an i32 handed to from_raw_os_error: a defined code, 0, or a value that
\* is no error code at all
RawCodes == (-1)..(MaxErrno + 1)

ErrorFrame ==
    UNCHANGED <<pc, path, fdOpen, devExcl, result, log, termios, lastOp, lastBaud,
                poll, ioVars>>

\* from_raw_os_error(errno) called with any i32
FromRawOsError(e) ==
    /\ mapped' = Some([via |-> "from_raw_os_error", errno |-> e,
                       err |-> from_raw_os_error(e)])
    /\ ErrorFrame

\* last_os_error(): from_raw_os_error(errno()), errno being what the last
\* failed call left
LastOsError ==
    /\ \E e \in 1..MaxErrno :
         mapped' = Some([via |-> "last_os_error", errno |-> e,
                         err |-> from_raw_os_error(e)])
    /\ ErrorFrame

InitError == InitPort /\ InitSettingsIdle /\ InitPollIdle /\ InitErrorIdle /\ InitIoIdle

\* the mapper on its own, and the one open whose only answer is an error:
\* that of a path that does not exist
NextError ==
    \/ \E e \in RawCodes : FromRawOsError(e)
    \/ LastOsError
    \/ \E p \in Procs : OpenBegin(p, "missing")
    \/ \E p \in Procs : OsOpen(p)

SpecError == InitError /\ [][NextError]_vars

ErrorKinds == {"NoDevice", "InvalidInput", "Io(Interrupted)", "Io(WouldBlock)", "Io(Other)"}

\* C17: the classification of error codes.  Every code gets exactly one of
\* the five kinds and keeps its code for the description: the eight codes of
\* a device that is busy, absent or not accessible (16, 21, 40, 20, 2, 19, 6,
\* 13) give NoDevice; invalid argument (22) and name too long (36) give
\* InvalidInput; 4 gives Io(Interrupted); 11 gives Io(WouldBlock); every
\* other code gives Io(Other).  The code of a path that does not exist, the
\* only answer of open(2) for it, is among the NoDevice ones.
C17_ErrorClassification ==
    /\ mapped # None =>
          LET e == mapped[1].errno
              k == mapped[1].err.kind
          IN  /\ k \in ErrorKinds
              /\ mapped[1].err.errno = e
              /\ (k = "NoDevice") = (e \in {16, 21, 40, 20, 2, 19, 6, 13})
              /\ (k = "InvalidInput") = (e \in {22, 36})
              /\ (k = "Io(Interrupted)") = (e = 4)
              /\ (k = "Io(WouldBlock)") = (e = 11)
              /\ (k = "Io(Other)") =
                    (e \notin {16, 21, 40, 20, 2, 19, 6, 13, 22, 36, 4, 11})
    /\ \A p \in Procs :
          (path[p] = "missing" /\ pc[p] = "done") => result[p].kind = "NoDevice"

\* C17 witness: an open of a missing path has returned, and last_os_error()
\* mapped the code of a missing file, 2, to NoDevice.
C17_Witness ==
    /\ \E p \in Procs : pc[p] = "done" /\ result[p] = from_raw_os_error(ENOENT)
    /\ mapped # None
    /\ mapped[1].via = "last_os_error"
    /\ mapped[1].errno = ENOENT
    /\ mapped[1].err.kind = "NoDevice"

(***************************************************************************)
(* One TTYPort on its device (tty.rs, impl SerialDevice for TTYPort).      *)
(*                                                                         *)
(* The device is the environment: TCGETS2 copies its live attribute block  *)
(* out, TCSETS2 replaces it by the block handed in (one ioctl on the whole *)
(* structure), tcflush(TCIOFLUSH) discards both of its buffers.  A call    *)
(* that fails changes nothing on the device.  The program is the only      *)
(* holder of the device here; the lock is the subject of Spec.             *)
(***************************************************************************)
\* c_lflag
ISIG == W(1)
ICANON == W(2)
ECHO == W(8)
ECHOE == W(16)
ECHOK == W(32)
ECHONL == W(64)
IEXTEN == W(32768)
\* c_oflag
OPOST == W(1)
\* c_cc indexes
VTIME == 5
VMIN == 6

\* a termios2 structure with its control characters; of c_cc only the two
\* entries the code writes are kept
DeviceBlock(r, vmin, vtime) ==
    [c_iflag |-> r.c_iflag,
     c_oflag |-> r.c_oflag,
     c_cflag |-> r.c_cflag,
     c_lflag |-> r.c_lflag,
     c_ospeed |-> r.c_ospeed,
     c_ispeed |-> r.c_ispeed,
     c_cc |-> (VTIME :> vtime) @@ (VMIN :> vmin)]

\* read_settings without `| CLOCAL`
read_settings_noclocal(t) ==
    [t EXCEPT !.c_cflag = Or(@, CREAD),
              !.c_lflag = And(@, Not32(Or(Or(Or(ICANON, ECHO), Or(ECHOE, ECHOK)),
                                          Or(Or(ECHONL, ISIG), IEXTEN)))),
              !.c_oflag = And(@, Not32(OPOST)),
              !.c_iflag = And(@, Not32(Or(Or(INLCR, IGNCR), Or(ICRNL, IGNBRK)))),
              !.c_cc = [@ EXCEPT ![VMIN] = 0, ![VTIME] = 0]]

\* read_settings after termios::read has returned the block t: the setup
\* "for binary serial port access", then TTYSettings::new
read_settings(t) ==
    [t EXCEPT !.c_cflag = Or(@, Or(CREAD, CLOCAL)),
              !.c_lflag = And(@, Not32(Or(Or(Or(ICANON, ECHO), Or(ECHOE, ECHOK)),
                                          Or(Or(ECHONL, ISIG), IEXTEN)))),
              !.c_oflag = And(@, Not32(OPOST)),
              !.c_iflag = And(@, Not32(Or(Or(INLCR, IGNCR), Or(ICRNL, IGNBRK)))),
              !.c_cc = [@ EXCEPT ![VMIN] = 0, ![VTIME] = 0]]

\* termios::write copying the fields one ioctl at a time: a failure leaves
\* the fields already copied
termios_write_fieldwise(d, t, e) ==
    IF e = 0 THEN t ELSE [d EXCEPT !.c_cflag = t.c_cflag]

\* termios::write: the live block after ioctl(fd, TCSETS2, t) answered e
termios_write(d, t, e) == IF e = 0 THEN t ELSE d

\* write_settings discarding the buffers before it writes the block
write_settings_flushfirst(d, b, t, k, e) ==
    [dev |-> IF k = 0 THEN t ELSE d,
     rx |-> IF k = 1 THEN b.rx ELSE 0,
     tx |-> IF k = 1 THEN b.tx ELSE 0,
     sys |-> IF k = 1 THEN <<Sys("TCIOFLUSH", e)>>
             ELSE <<Sys("TCIOFLUSH", 0), Sys("TCSETS2", e)>>,
     ret |-> IF k = 0 THEN OkResult ELSE from_raw_os_error(e)]

\* write_settings(&settings) on the device (d, buffers b): termios::write,
\* then termios::flush.  k is the call that fails with errno e (1:
\* TCSETS2, 2: TCIOFLUSH, 0: none, e = 0)
write_settings(d, b, t, k, e) ==
    [dev |-> termios_write(d, t, IF k = 1 THEN e ELSE 0),
     rx |-> IF k = 0 THEN 0 ELSE b.rx,
     tx |-> IF k = 0 THEN 0 ELSE b.tx,
     sys |-> IF k = 1 THEN <<Sys("TCSETS2", e)>>
             ELSE <<Sys("TCSETS2", 0), Sys("TCIOFLUSH", e)>>,
     ret |-> IF k = 0 THEN OkResult ELSE from_raw_os_error(e)]

\* Duration::from_millis(ms)
from_millis(ms) == [secs |-> W(ms \div 1000), nanos |-> (ms % 1000) * 1000000]

\* a call on the port: its argument, the system calls it made, what it
\* returned, and the block it handed to TCSETS2 (None: it did not get there)
PortCall(op, arg, sys, ret, passed) ==
    [op |-> op, arg |-> arg, sys |-> sys, ret |-> ret, passed |-> passed]

\* a call on the port leaves the processes of Spec, the waiter, the mapper
\* and the modem-control lines alone
DeviceFrame ==
    UNCHANGED <<pc, path, fdOpen, devExcl, result, log, poll, mapped, target, pins>>

\* the errors of the steps of open, in the order of OpenCalls
OpenErrs(k) ==
    CASE k = 1 -> {ENOENT, EACCES, EBUSY}
      [] k = 2 -> {ENOTTY, EIO}
      [] k = 3 -> {EBADF}
      [] OTHER -> {EIO}

\* TTYPort::open(path) as one call: step k fails with errno e (k = 0: none).
\* A failure after the port was constructed runs Drop.
PortOpen ==
    /\ port = None /\ ioPc = "idle"
    /\ \E k \in 0..Len(OpenCalls) : \E e \in (IF k = 0 THEN {0} ELSE OpenErrs(k)) :
         LET settings == read_settings(dev)
             w == write_settings(dev, [rx |-> rx, tx |-> tx], settings,
                                 IF k = 5 THEN 1 ELSE IF k = 6 THEN 2 ELSE 0,
                                 IF k \in {5, 6} THEN e ELSE 0)
             wrote == k = 0 \/ k >= 5
             last == IF k = 0 THEN Len(OpenCalls) ELSE k
             drop == IF k >= 2 THEN <<Sys("TIOCNXCL", 0), Sys("close", 0)>> ELSE <<>>
         IN  /\ port' = IF k = 0 THEN Some([fd |-> 3, timeout |-> from_millis(100)])
                        ELSE None
             /\ dev' = IF wrote THEN w.dev ELSE dev
             /\ rx' = IF wrote THEN w.rx ELSE rx
             /\ tx' = IF wrote THEN w.tx ELSE tx
             /\ io' = PortCall("open", None,
                               [i \in 1..last |-> Sys(OpenCalls[i], IF i = k THEN e ELSE 0)]
                                  \o drop,
                               IF k = 0 THEN OkResult ELSE from_raw_os_error(e),
                               IF wrote THEN Some(settings) ELSE None)
    /\ UNCHANGED <<ioPc, termios, lastOp, lastBaud>>
    /\ DeviceFrame

\* Drop of the port: TIOCNXCL, close
PortDrop ==
    /\ port # None /\ ioPc = "idle"
    /\ port' = None
    /\ io' = PortCall("drop", None, <<Sys("TIOCNXCL", 0), Sys("close", 0)>>, OkResult,
                      None)
    /\ UNCHANGED <<dev, rx, tx, ioPc, termios, lastOp, lastBaud>>
    /\ DeviceFrame

\* port.read_settings(): termios::read, the setup, a new TTYSettings
PortReadSettings ==
    /\ port # None /\ ioPc = "idle"
    /\ \E e \in {0, EIO} :
         /\ io' = PortCall("read_settings", None, <<Sys("TCGETS2", e)>>,
                           IF e = 0 THEN OkResult ELSE from_raw_os_error(e), None)
         /\ IF e = 0
              THEN /\ termios' = read_settings(dev)
                   /\ lastOp' = Call("new", None)
                   /\ lastBaud' = None
              ELSE UNCHANGED <<termios, lastOp, lastBaud>>
    /\ UNCHANGED <<port, dev, rx, tx, ioPc>>
    /\ DeviceFrame

\* port.write_settings(&settings) with the TTYSettings the program holds
PortWriteSettings ==
    /\ port # None /\ ioPc = "idle" /\ termios # None
    /\ \E k \in 0..2 : \E e \in (IF k = 0 THEN {0} ELSE {EIO}) :
         LET w == write_settings(dev, [rx |-> rx, tx |-> tx], termios, k, e)
         IN  /\ dev' = w.dev
             /\ rx' = w.rx
             /\ tx' = w.tx
             /\ io' = PortCall("write_settings", None, w.sys, w.ret, Some(termios))
    /\ UNCHANGED <<port, ioPc, termios, lastOp, lastBaud>>
    /\ DeviceFrame

\* core::PortSettings
PortSettings(b, c, p, s, f) ==
    [baud_rate |-> b, char_size |-> c, parity |-> p, stop_bits |-> s, flow_control |-> f]

\* the TTYSettings configure builds from the block t it has read
configure(t, s) ==
    set_flow_control(
        set_stop_bits(
            set_parity(
                set_char_size(
                    set_baud_rate(read_settings(t), s.baud_rate),
                    s.char_size),
                s.parity),
            s.stop_bits),
        s.flow_control)

\* port.configure(&settings): read_settings, the five setters on the
\* TTYSettings read, write_settings.  k is the call that fails (1: TCGETS2,
\* 2: TCSETS2, 3: TCIOFLUSH, 0: none)
PortConfigure(s) ==
    /\ port # None /\ ioPc = "idle"
    /\ \E k \in 0..3 : \E e \in (IF k = 0 THEN {0} ELSE {EIO}) :
         LET t == configure(dev, s)
             w == write_settings(dev, [rx |-> rx, tx |-> tx], t,
                                 IF k \in {2, 3} THEN k - 1 ELSE 0,
                                 IF k \in {2, 3} THEN e ELSE 0)
         IN  IF k = 1
               THEN /\ io' = PortCall("configure", s, <<Sys("TCGETS2", e)>>,
                                      from_raw_os_error(e), None)
                    /\ UNCHANGED <<dev, rx, tx>>
               ELSE /\ dev' = w.dev
                    /\ rx' = w.rx
                    /\ tx' = w.tx
                    /\ io' = PortCall("configure", s, <<Sys("TCGETS2", 0)>> \o w.sys,
                                      w.ret, Some(t))
    /\ UNCHANGED <<port, ioPc, termios, lastOp, lastBaud>>
    /\ DeviceFrame

(***************************************************************************)
(* SpecDevice: the attribute calls of one port.  The device starts with    *)
(* the block its last user left; the values handed to the setters are a    *)
(* standard and a custom rate and two values per field.                    *)
(***************************************************************************)
\* what the last user left: a cooked terminal at 9600 with every other flag
\* clear, and a block with every flag set, a custom speed and both controls
\* non-zero
DeviceBlocks ==
    {DeviceBlock(RawBlock(B9600, B0, <<W(0), W(0)>>, {}), 1, 0),
     DeviceBlock(RawBlock(BOTHER, B9600, <<W(250000), W(31250)>>, U32), 1, 1)}

DeviceRates == {Named("Baud115200"), BaudOther(W(250000))}
DeviceCharSizes == {"Bits7"}
DeviceParities == {"ParityOdd"}
DeviceStopBits == {"Stop2"}
DeviceFlowControls == {"FlowHardware"}

InitDevice ==
    /\ InitPort
    /\ InitSettingsIdle
    /\ InitPollIdle
    /\ InitErrorIdle
    /\ target = "linux"
    /\ port = None
    /\ dev \in DeviceBlocks
    /\ rx = 0
    /\ tx = 0
    /\ ioPc = "idle"
    /\ io = None
    /\ pins = {}

NextDevice ==
    \/ PortOpen
    \/ PortDrop
    \/ PortReadSettings
    \/ PortWriteSettings
    \/ \E b \in DeviceRates : termios # None /\ SetBaudRate(b)
    \/ \E v \in DeviceCharSizes : termios # None /\ SetCharSize(v)
    \/ \E v \in DeviceParities : termios # None /\ SetParity(v)
    \/ \E v \in DeviceStopBits : termios # None /\ SetStopBits(v)
    \/ \E v \in DeviceFlowControls : termios # None /\ SetFlowControl(v)

SpecDevice == InitDevice /\ [][NextDevice]_vars

(***************************************************************************)
(* Claims on the live attribute block                                      *)
(***************************************************************************)
\* C14: baseline normalization.  Whenever the program holds an open port,
\* after open returned Ok and after any sequence of read_settings, setter
\* calls and write_settings (failed ones included), the live block has the
\* receiver enabled and the modem-control lines ignored (CREAD and CLOCAL
\* set), canonical mode, the echoes, signals and extended processing off,
\* output post-processing off, INLCR, IGNCR, ICRNL and IGNBRK off, and the
\* minimum-bytes and inter-byte-timeout controls at 0.
C14_BaselineNormalization ==
    port # None =>
        /\ And(dev.c_cflag, CREAD) = CREAD
        /\ And(dev.c_cflag, CLOCAL) = CLOCAL
        /\ dev.c_lflag \cap (ICANON \cup ECHO \cup ECHOE \cup ECHOK \cup ECHONL
                               \cup ISIG \cup IEXTEN) = {}
        /\ dev.c_oflag \cap OPOST = {}
        /\ dev.c_iflag \cap (INLCR \cup IGNCR \cup ICRNL \cup IGNBRK) = {}
        /\ dev.c_cc[VMIN] = 0
        /\ dev.c_cc[VTIME] = 0

\* C14 witness: on the device that started as a cooked 9600 terminal with
\* both baseline flags clear, the port has written settings on which the
\* custom rate, the character size, the parity, the stop bits and the
\* flow control had all been set.
C14_Witness ==
    /\ port # None
    /\ io.op = "write_settings" /\ io.ret = OkResult
    /\ dev.c_oflag = {} /\ dev.c_lflag = {}
    /\ Getters(dev) = <<Some(BaudOther(W(250000))), Some("Bits7"), Some("ParityOdd"),
                        Some("Stop2"), Some("FlowHardware")>>

\* C20: attribute writes replace the whole block.  Across every call, the
\* failed ones included, the live block is afterwards either the block that
\* was live before the call or the complete block the call handed to the
\* write, never a mixture; a failed call made no call after the one that
\* failed and returns that call's mapped error, and a call that returned Ok
\* had no failure.
C20_WholeBlockReplacement ==
    [][ /\ dev' # dev => (io'.passed # None /\ dev' = io'.passed[1])
        /\ io' # None =>
              LET k == FirstFailure(SubSeq(io'.sys, 1,
                                           IF io'.op = "open" /\ Len(io'.sys) > Len(OpenCalls)
                                             THEN Len(io'.sys) - 2 ELSE Len(io'.sys)))
              IN  IF io'.ret = OkResult THEN k = 0
                  ELSE /\ k > 0
                       /\ io'.ret = from_raw_os_error(io'.sys[k].errno)
                       /\ \A i \in (k + 1)..Len(io'.sys) :
                             io'.sys[i].call \in {"TIOCNXCL", "close"} ]_vars

\* C20 witness: a write_settings failed in TCSETS2 with settings that differ
\* from the live block in four fields, and the live block is still whole.
C20_Witness ==
    /\ port # None
    /\ io.op = "write_settings" /\ io.ret = from_raw_os_error(EIO)
    /\ Len(io.sys) = 1
    /\ \A g \in 2..5 : Getters(io.passed[1])[g] # Getters(dev)[g]

(***************************************************************************)
(* SpecConfigure: open, configure and drop of one port, over the same      *)
(* device blocks                                                           *)
(***************************************************************************)
ConfigureSettings ==
    {PortSettings(b, c, p, sf[1], sf[2]) :
        b \in DeviceRates, c \in {"Bits5", "Bits8"}, p \in {"ParityNone", "ParityOdd"},
        sf \in {<<"Stop1", "FlowNone">>, <<"Stop2", "FlowHardware">>,
                <<"Stop1", "FlowSoftware">>}}

NextConfigure ==
    \/ PortOpen
    \/ PortDrop
    \/ \E s \in ConfigureSettings : PortConfigure(s)

SpecConfigure == InitDevice /\ [][NextConfigure]_vars

\* C15: configure is idempotent.  After a configure with the settings s
\* that returned Ok, from any live block, a second configure with s hands
\* the write the very block that is live (the two speed words included), so
\* the live block after two is the block after one; and each of the five
\* setters applied once more with its value of s leaves the block as it is.
C15_ConfigureIdempotent ==
    (io # None /\ io.op = "configure" /\ io.ret = OkResult) =>
        LET s == io.arg
        IN  /\ configure(dev, s) = dev
            /\ set_baud_rate(dev, s.baud_rate) = dev
            /\ set_char_size(dev, s.char_size) = dev
            /\ set_parity(dev, s.parity) = dev
            /\ set_stop_bits(dev, s.stop_bits) = dev
            /\ set_flow_control(dev, s.flow_control) = dev

\* C15 witness: a configure with a custom rate, 8 bits, odd parity, two stop
\* bits and hardware flow control returned Ok on the device whose block had
\* every flag set and differing speed words.
C15_Witness ==
    /\ io # None /\ io.op = "configure" /\ io.ret = OkResult
    /\ io.arg = PortSettings(BaudOther(W(250000)), "Bits8", "ParityOdd", "Stop2",
                             "FlowHardware")
    /\ dev.c_ispeed = W(31250) /\ dev.c_ospeed = W(250000)
    /\ dev.c_lflag # {}

(***************************************************************************)
(* Reads, writes, flush and the timeout of one port (tty.rs, io::Read and  *)
(* io::Write for TTYPort; poll.rs, do_poll).                               *)
(*                                                                         *)
(* The device is the environment: it receives bytes into its input buffer  *)
(* and transmits the bytes of its output buffer.  A wait in do_poll ends   *)
(* when the descriptor is ready, when the timeout it was given expires,    *)
(* when a signal interrupts it or when the device hangs up; tcdrain ends   *)
(* when the output buffer is empty.                                        *)
(***************************************************************************)
\* the capacity of each of the device's buffers, in bytes
MaxBuf == 2

\* u64 arithmetic on words, wrapping.  The carry into bit i: some lower bit
\* generates one and every bit between passes it on
Carry(a, b, i) ==
    \E j \in 0..(i - 1) :
        /\ j \in a /\ j \in b
        /\ \A k \in (j + 1)..(i - 1) : k \in a \/ k \in b

Add64(a, b) == {i \in U64 : ((i \in a) # (i \in b)) # Carry(a, b, i)}
Shl64(a, k) == {i + k : i \in {j \in a : j + k <= 63}}

\* a * 1000, 1000 being 2^9 + 2^8 + 2^7 + 2^6 + 2^5 + 2^3
Mul1000(a) ==
    Add64(Add64(Add64(Shl64(a, 9), Shl64(a, 8)), Add64(Shl64(a, 7), Shl64(a, 6))),
          Add64(Shl64(a, 5), Shl64(a, 3)))

\* whether a * 1000 leaves u64: a >= 2^64 / 1000, for which a >= 2^55 stands
\* (every a of Timeouts is either below 2^32 or has bit 63)
Mul1000Overflows(a) == \E i \in a : i >= 55

\* Duration::from_secs(s)
from_secs(s) == [secs |-> W(s), nanos |-> 0]

\* what do_poll hands to the system call.  linux: a timespec, tv_sec being
\* `as_secs() as time_t` (i64) and tv_nsec `subsec_nanos() as c_long`;
\* elsewhere: `milliseconds as c_int`, the low 32 bits of
\* as_secs() * 1000 + subsec_nanos() / 1_000_000
do_poll_timeout(tgt, d) ==
    IF tgt = "linux"
      THEN [tv_sec |-> d.secs, tv_nsec |-> d.nanos]
      ELSE [ms |-> AsU32(Add64(Mul1000(d.secs), W(d.nanos \div 1000000)))]

\* ppoll answers EINVAL to a negative tv_sec
TimeoutInvalid(tgt, a) == tgt = "linux" /\ 63 \in a.tv_sec

\* poll waits without limit on a negative c_int
TimeoutInfinite(tgt, a) == tgt # "linux" /\ 31 \in a.ms

\* the poll of a read or a write: the interest, the Duration wait_fd was
\* given, what do_poll made of it, and what wait_fd returned
PollEntry(events, d, ret) ==
    [call |-> "poll", ok |-> (ret = IoOk), errno |-> ret.msg, events |-> events,
     timeout |-> d, arg |-> do_poll_timeout(target, d), ret |-> ret]

Pending == [kind |-> "pending", msg |-> 0]

\* a read or a write: the length of buf, the system calls, the result and
\* the number of bytes moved
IoCall(op, n, sys, ret, len) ==
    [op |-> op, arg |-> n, sys |-> sys, ret |-> ret, passed |-> None, len |-> len]

\* the inputs of set_timeout: none, the scenario's 50 ms, the default,
\* 2147484 s (2^31 ms is 2147483.648 s), and 2^63 s
Timeouts ==
    {from_millis(0), from_millis(50), from_millis(100), from_secs(2147484),
     [secs |-> {63}, nanos |-> 0]}

\* read / write up to the wait: wait_read_fd(self.fd, self.timeout) or
\* wait_write_fd(self.fd, self.timeout) has entered do_poll.  Where the
\* multiplication of do_poll overflows, a build with overflow checks panics
\* and one without wraps.
IoBegin(op, events, n) ==
    /\ port # None /\ ioPc = "idle"
    /\ io' = IoCall(op, n, <<PollEntry(events, port[1].timeout, Pending)>>, Pending, 0)
    /\ \/ ioPc' = "poll"
       \/ /\ target # "linux" /\ Mul1000Overflows(port[1].timeout.secs)
          /\ ioPc' = "panic"
    /\ UNCHANGED <<port, dev, rx, tx, termios, lastOp, lastBaud>>
    /\ DeviceFrame

ReadBegin(n) == IoBegin("read", POLLIN, n)

WriteBegin(n) == IoBegin("write", POLLOUT, n)

Min(a, b) == IF a < b THEN a ELSE b

\* the rest of read / write once do_poll has returned `wait`, with errno
\* and pollfd.revents: wait_fd classifies; on Ok exactly one libc::read or
\* libc::write follows, which answers e (0: the bytes the device has, or
\* has room for, up to buf.len()); its error is io::Error::last_os_error()
IoEnd(wait, errno, revents, e) ==
    /\ ioPc = "poll"
    /\ LET events == io.sys[1].events
           w == wait_fd(events, wait, errno, revents)
           polled == <<[io.sys[1] EXCEPT !.ok = (w = IoOk), !.errno = w.msg, !.ret = w]>>
           k == IF e # 0 THEN 0
                ELSE IF io.op = "read" THEN Min(io.arg, rx)
                ELSE Min(io.arg, MaxBuf - tx)
       IN  IF w = IoOk
             THEN /\ io' = [io EXCEPT !.sys = polled \o <<Sys(io.op, e)>>,
                                      !.ret = IF e = 0 THEN IoOk ELSE IoError("RawOs", e),
                                      !.len = k]
                  /\ rx' = IF io.op = "read" THEN rx - k ELSE rx
                  /\ tx' = IF io.op = "write" THEN tx + k ELSE tx
             ELSE /\ io' = [io EXCEPT !.sys = polled, !.ret = w]
                  /\ UNCHANGED <<rx, tx>>
    /\ ioPc' = "idle"
    /\ UNCHANGED <<port, dev, termios, lastOp, lastBaud>>
    /\ DeviceFrame

PollArg == io.sys[1].arg

\* the descriptor has what the call waits for
Ready ==
    \/ io.sys[1].events = POLLIN /\ rx > 0
    \/ io.sys[1].events = POLLOUT /\ tx < MaxBuf

\* do_poll returns 1: the descriptor is ready
PollReady ==
    /\ ioPc = "poll" /\ ~TimeoutInvalid(target, PollArg) /\ Ready
    /\ \E e \in {0, EIO} : IoEnd(1, 0, io.sys[1].events, e)

\* do_poll returns 0: the timeout it was given has expired
PollExpire ==
    /\ ioPc = "poll" /\ ~TimeoutInvalid(target, PollArg)
    /\ ~TimeoutInfinite(target, PollArg) /\ ~Ready
    /\ IoEnd(0, 0, {}, 0)

\* do_poll returns -1, EINVAL: the timeout it was given is no timeout
PollInvalid ==
    /\ ioPc = "poll" /\ TimeoutInvalid(target, PollArg)
    /\ IoEnd(-1, EINVAL, {}, 0)

\* the wait of a read or write started again after a signal
PollInterrupted_retry ==
    /\ ioPc = "poll" /\ ~TimeoutInvalid(target, PollArg)
    /\ io' = [io EXCEPT !.sys = <<PollEntry(io.sys[1].events, io.sys[1].timeout,
                                            IoError("Interrupted", EINTR))>> \o @]
    /\ UNCHANGED <<ioPc, rx, tx, port, dev, termios, lastOp, lastBaud>>
    /\ DeviceFrame

\* do_poll returns -1, EINTR: a signal arrived
PollInterrupted ==
    /\ ioPc = "poll" /\ ~TimeoutInvalid(target, PollArg)
    /\ IoEnd(-1, EINTR, {}, 0)

\* do_poll returns 1 with the device gone or in error
PollHangup ==
    /\ ioPc = "poll" /\ ~TimeoutInvalid(target, PollArg)
    /\ \E r \in {POLLHUP, POLLERR, Or(POLLHUP, io.sys[1].events)} : \E e \in {0, EIO} :
         IoEnd(1, 0, r, e)

\* flush up to the call: libc::tcdrain(self.fd) has been entered; arg is
\* the number of bytes the output buffer holds then
FlushBegin ==
    /\ port # None /\ ioPc = "idle"
    /\ io' = IoCall("flush", tx, <<>>, Pending, 0)
    /\ ioPc' = "tcdrain"
    /\ UNCHANGED <<port, dev, rx, tx, termios, lastOp, lastBaud>>
    /\ DeviceFrame

\* flush calling tcflush(fd, TCIOFLUSH) in place of tcdrain
FlushEnd_discard ==
    /\ ioPc = "tcdrain"
    /\ io' = [io EXCEPT !.sys = <<Sys("tcdrain", 0)>>, !.ret = IoOk]
    /\ ioPc' = "idle"
    /\ rx' = 0
    /\ tx' = 0
    /\ UNCHANGED <<port, dev, termios, lastOp, lastBaud>>
    /\ DeviceFrame

\* tcdrain returns 0: the output buffer has been transmitted
FlushEnd ==
    /\ ioPc = "tcdrain" /\ tx = 0
    /\ io' = [io EXCEPT !.sys = <<Sys("tcdrain", 0)>>, !.ret = IoOk]
    /\ ioPc' = "idle"
    /\ UNCHANGED <<port, dev, rx, tx, termios, lastOp, lastBaud>>
    /\ DeviceFrame

\* tcdrain returns -1: a signal, or the device in error
FlushFail ==
    /\ ioPc = "tcdrain"
    /\ \E e \in {EINTR, EIO} :
         io' = [io EXCEPT !.sys = <<Sys("tcdrain", e)>>, !.ret = IoError("RawOs", e)]
    /\ ioPc' = "idle"
    /\ UNCHANGED <<port, dev, rx, tx, termios, lastOp, lastBaud>>
    /\ DeviceFrame

\* timeout()
timeout(p) == p.timeout

\* set_timeout writing a copy of the port
PortSetTimeout_copy(d) ==
    /\ port # None /\ ioPc = "idle"
    /\ io' = PortCall("set_timeout", d, <<>>, OkResult, None)
    /\ UNCHANGED <<port, dev, rx, tx, ioPc, termios, lastOp, lastBaud>>
    /\ DeviceFrame

\* set_timeout(d)
PortSetTimeout(d) ==
    /\ port # None /\ ioPc = "idle"
    /\ port' = Some([port[1] EXCEPT !.timeout = d])
    /\ io' = PortCall("set_timeout", d, <<>>, OkResult, None)
    /\ UNCHANGED <<dev, rx, tx, ioPc, termios, lastOp, lastBaud>>
    /\ DeviceFrame

\* the device receives a byte
DeviceReceive ==
    /\ rx < MaxBuf
    /\ rx' = rx + 1
    /\ UNCHANGED <<port, dev, tx, ioPc, io, termios, lastOp, lastBaud>>
    /\ DeviceFrame

\* the device transmits a byte
DeviceTransmit ==
    /\ tx > 0
    /\ tx' = tx - 1
    /\ UNCHANGED <<port, dev, rx, ioPc, io, termios, lastOp, lastBaud>>
    /\ DeviceFrame

\* either build, no port yet, a device in cooked mode
InitIo ==
    /\ InitPort
    /\ InitSettingsIdle
    /\ InitPollIdle
    /\ InitErrorIdle
    /\ target \in {"linux", "other"}
    /\ port = None
    /\ dev = DeviceBlock(RawBlock(B9600, B0, <<W(0), W(0)>>, {}), 1, 0)
    /\ rx = 0
    /\ tx = 0
    /\ ioPc = "idle"
    /\ io = None
    /\ pins = {}

NextIo ==
    \/ PortOpen
    \/ PortDrop
    \/ \E d \in Timeouts : PortSetTimeout(d)
    \/ \E n \in 1..MaxBuf : ReadBegin(n)
    \/ \E n \in 1..MaxBuf : WriteBegin(n)
    \/ PollReady
    \/ PollExpire
    \/ PollInvalid
    \/ PollInterrupted
    \/ PollHangup
    \/ FlushBegin
    \/ FlushEnd
    \/ FlushFail
    \/ DeviceReceive
    \/ DeviceTransmit

SpecIo == InitIo /\ [][NextIo]_vars

\* reads and writes on a device that stays silent (it receives nothing and
\* does not hang up), by a process no signal reaches
NextSilent ==
    \/ PortOpen
    \/ PortDrop
    \/ \E d \in Timeouts : PortSetTimeout(d)
    \/ \E n \in 1..MaxBuf : ReadBegin(n)
    \/ \E n \in 1..MaxBuf : WriteBegin(n)
    \/ PollReady
    \/ PollExpire
    \/ PollInvalid
    \/ DeviceTransmit

\* a system call that has an answer gives it: the timer of a wait expires,
\* and an invalid argument is answered at once
SpecSilent ==
    InitIo /\ [][NextSilent]_vars /\ WF_vars(PollExpire) /\ WF_vars(PollInvalid)

(***************************************************************************)
(* Claims on reads, writes, flush and the timeout                          *)
(***************************************************************************)
\* C11: one wait, then at most one transfer.  Every read (write) makes
\* exactly one readiness wait, with Readable (Writable) interest and the
\* timeout the port holds; when the wait succeeded exactly one raw read
\* (write) follows it; when the wait failed, interrupted included, the call
\* returns the wait's error, makes no raw transfer and moves no byte, and
\* does not wait again.
C11_OneWaitThenOneTransfer ==
    (io # None /\ io.op \in {"read", "write"}) =>
        /\ Calls(io.sys, "poll") = {1}
        /\ io.sys[1].events = (IF io.op = "read" THEN POLLIN ELSE POLLOUT)
        /\ port # None
        /\ io.sys[1].timeout = timeout(port[1])
        /\ ioPc # "idle" => (Len(io.sys) = 1 /\ io.len = 0)
        /\ ioPc = "idle" =>
              IF io.sys[1].ret = IoOk
                THEN /\ Len(io.sys) = 2
                     /\ io.sys[2].call = io.op
                     /\ io.ret = (IF io.sys[2].ok THEN IoOk
                                  ELSE IoError("RawOs", io.sys[2].errno))
                ELSE /\ Len(io.sys) = 1
                     /\ io.ret = io.sys[1].ret
                     /\ io.ret.kind \in {"Interrupted", "TimedOut", "BrokenPipe", "Other"}
                     /\ io.len = 0

\* C11 witness: a write with the timeout set to 50 ms was interrupted in its
\* wait and has returned Interrupted after that one call, the output buffer
\* having room.
C11_Witness ==
    /\ io # None /\ io.op = "write" /\ ioPc = "idle"
    /\ io.ret.kind = "Interrupted"
    /\ Len(io.sys) = 1
    /\ io.sys[1].timeout = from_millis(50)
    /\ tx < MaxBuf

\* C13: set_timeout.  A set_timeout(d) returns Ok, makes no system call,
\* and leaves the handle, the live block and both buffers as they were;
\* after it timeout() is d.  Nothing but set_timeout changes the timeout of
\* a port, every read and write hands the timeout the port holds to its
\* wait, and a port just opened holds 100 ms.
C13_SetTimeout ==
    [][ /\ (io' # io /\ io' # None /\ io'.op = "set_timeout") =>
              /\ io'.ret = OkResult /\ io'.sys = <<>>
              /\ port # None /\ port' # None
              /\ timeout(port'[1]) = io'.arg
              /\ port'[1].fd = port[1].fd
              /\ dev' = dev /\ rx' = rx /\ tx' = tx
        /\ (port # None /\ port' # None /\ timeout(port'[1]) # timeout(port[1])) =>
              (io' # io /\ io'.op = "set_timeout")
        /\ (io' # io /\ io' # None /\ io'.op \in {"read", "write"} /\ ioPc = "idle") =>
              io'.sys[1].timeout = timeout(port[1])
        /\ (port = None /\ port' # None) => timeout(port'[1]) = from_millis(100) ]_vars

\* C13 witness: a read has waited with the 50 ms that a set_timeout had put
\* in place of the 100 ms of open, and timed out.
C13_Witness ==
    /\ io # None /\ io.op = "read" /\ ioPc = "idle"
    /\ io.ret.kind = "TimedOut"
    /\ io.sys[1].timeout = from_millis(50)
    /\ timeout(port[1]) = from_millis(50)

\* C16: flush drains.  A flush changes neither buffer by itself (what leaves
\* the output buffer while it blocks is transmitted by the device) nor the
\* live block, and when it returns Ok the output buffer is empty: every
\* byte written before has been transmitted, none discarded, and the input
\* is kept.
C16_FlushDrains ==
    [][ (io' # io /\ io' # None /\ io'.op = "flush") =>
            /\ rx' = rx /\ tx' = tx /\ dev' = dev
            /\ (ioPc' = "idle" /\ io'.ret = IoOk) => tx' = 0 ]_vars

\* C16 witness: a flush called with the output buffer full has returned Ok
\* with the output buffer empty and the input buffer still full.
C16_Witness ==
    /\ io # None /\ io.op = "flush" /\ ioPc = "idle" /\ io.ret = IoOk
    /\ io.arg = MaxBuf
    /\ tx = 0
    /\ rx = MaxBuf

\* whether the argument a of the system call stands for the Duration d:
\* on linux the seconds, non-negative as a time_t, and the nanoseconds; else
\* the whole milliseconds of d, computed without overflow and within the
\* non-negative c_int
Represents(tgt, a, d) ==
    IF tgt = "linux"
      THEN a.tv_sec = d.secs /\ 63 \notin a.tv_sec /\ a.tv_nsec = d.nanos
      ELSE LET ms == Add64(Mul1000(d.secs), W(d.nanos \div 1000000))
           IN  /\ ~Mul1000Overflows(d.secs)
               /\ ms \subseteq 0..30
               /\ a.ms = ms

\* C24: the timeout handed to the system call.  For every read and write,
\* whatever Duration the port holds, what do_poll passes to ppoll / poll
\* stands for that Duration: it is not negative, hence no infinite wait and
\* no EINVAL, and it is not another duration by truncation or wrap-around.
C24_TimeoutRepresented ==
    (io # None /\ io.op \in {"read", "write"}) =>
        /\ io.sys[1].timeout = timeout(port[1])
        /\ Represents(target, io.sys[1].arg, io.sys[1].timeout)
        /\ ~TimeoutInfinite(target, io.sys[1].arg)
        /\ ~TimeoutInvalid(target, io.sys[1].arg)

\* C12: a read never blocks indefinitely.  On an open port whose device has
\* no pending data and never becomes readable, every read that has entered
\* its wait eventually returns, and a read that has returned has returned
\* TimedOut, after the one wait and without moving a byte.
C12_ReadTimesOut ==
    /\ (ioPc = "poll" /\ io.op = "read") ~> (ioPc = "idle")
    /\ []((io # None /\ ioPc = "idle" /\ io.op = "read") =>
            (io.ret.kind = "TimedOut" /\ io.len = 0 /\ Len(io.sys) = 1))

(***************************************************************************)
(* SpecBuffers: write_settings on a device whose buffers hold bytes: the   *)
(* program reads the settings, sets a rate, writes bytes and writes the    *)
(* settings, while the device receives and transmits.                      *)
(***************************************************************************)
\* the linux build, no port yet, a device in cooked mode
InitLinux == InitIo /\ target = "linux"

NextBuffers ==
    \/ PortOpen
    \/ PortDrop
    \/ PortReadSettings
    \/ \E v \in DeviceRates : termios # None /\ SetBaudRate(v)
    \/ PortWriteSettings
    \/ \E n \in 1..MaxBuf : WriteBegin(n)
    \/ PollReady
    \/ PollExpire
    \/ DeviceReceive
    \/ DeviceTransmit

SpecBuffers == InitLinux /\ [][NextBuffers]_vars

\* C26: write_settings is ordered and short-circuiting.  Its first call is
\* the attribute write and the discard follows only when that succeeded;
\* when the attribute write fails it returns that error with the live
\* block and both buffers as they were; it returns Ok exactly when both
\* calls succeeded, and then both buffers are empty and the live block is
\* the block of the settings passed.
C26_WriteThenDiscard ==
    [][ (io' # io /\ io' # None /\ io'.op = "write_settings") =>
          LET sys == io'.sys
          IN  /\ Len(sys) \in {1, 2}
              /\ sys[1].call = "TCSETS2"
              /\ Len(sys) = 2 <=> sys[1].ok
              /\ Len(sys) = 2 => sys[2].call = "TCIOFLUSH"
              /\ ~sys[1].ok =>
                    /\ dev' = dev /\ rx' = rx /\ tx' = tx
                    /\ io'.ret = from_raw_os_error(sys[1].errno)
              /\ io'.ret = OkResult <=> \A i \in 1..2 : i <= Len(sys) /\ sys[i].ok
              /\ io'.ret = OkResult =>
                    /\ rx' = 0 /\ tx' = 0
                    /\ dev' = io'.passed[1]
              /\ (Len(sys) = 2 /\ ~sys[2].ok) =>
                    /\ dev' = io'.passed[1]
                    /\ io'.ret = from_raw_os_error(sys[2].errno) ]_vars

\* C26 witness: a write_settings whose attribute write failed has returned
\* the error with both buffers full and the live block not the one passed.
C26_Witness ==
    /\ io # None /\ io.op = "write_settings"
    /\ io.ret = from_raw_os_error(EIO)
    /\ Len(io.sys) = 1
    /\ rx = MaxBuf /\ tx = MaxBuf
    /\ dev # io.passed[1]

(***************************************************************************)
(* SpecPins: the modem-control lines (tty.rs, set_pin / read_pin and the   *)
(* six methods over them).                                                 *)
(*                                                                         *)
(* The device holds one word of lines.  TIOCMBIS sets the lines of its     *)
(* argument, TIOCMBIC clears them, TIOCMGET copies the word out; a request *)
(* that fails does none of it.  The other end of the cable drives the      *)
(* input lines.                                                            *)
(***************************************************************************)
TIOCM_DTR == W(2)
TIOCM_RTS == W(4)
TIOCM_CTS == W(32)
TIOCM_CD == W(64)
TIOCM_RI == W(128)
TIOCM_DSR == W(256)

\* a call on a pin: the level given (None for a read), the request, what
\* the call returned and, for a read that returned Ok, the boolean
PinCall(op, arg, sys, ret, val) ==
    [op |-> op, arg |-> arg, sys |-> sys, ret |-> ret, passed |-> None, val |-> val]

\* set_pin handing the level to TIOCMSET, which writes the whole word
set_pin_whole(lines, pin, level, e) ==
    [pins |-> IF e # 0 THEN lines ELSE IF level THEN pin ELSE {},
     sys |-> <<Sys("TIOCMSET", e)>>,
     ret |-> IF e = 0 THEN OkResult ELSE from_raw_os_error(e)]

\* set_pin(pin, level) on the word `lines`, the request answering e
set_pin(lines, pin, level, e) ==
    [pins |-> IF e # 0 THEN lines
              ELSE IF level THEN Or(lines, pin) ELSE And(lines, Not32(pin)),
     sys |-> <<Sys(IF level THEN "TIOCMBIS" ELSE "TIOCMBIC", e)>>,
     ret |-> IF e = 0 THEN OkResult ELSE from_raw_os_error(e)]

\* read_pin(pin) on the word `lines`, the request answering e
read_pin(lines, pin, e) ==
    [sys |-> <<Sys("TIOCMGET", e)>>,
     ret |-> IF e = 0 THEN OkResult ELSE from_raw_os_error(e),
     val |-> IF e = 0 THEN Some(And(lines, pin) # {}) ELSE None]

PinFrame ==
    UNCHANGED <<pc, path, fdOpen, devExcl, result, log, poll, mapped, target, port,
                dev, rx, tx, ioPc, termios, lastOp, lastBaud>>

PortSetPin(op, pin, level) ==
    /\ port # None /\ ioPc = "idle"
    /\ \E e \in {0, EIO, ENOTTY} :
         LET r == set_pin(pins, pin, level, e)
         IN  /\ pins' = r.pins
             /\ io' = PinCall(op, level, r.sys, r.ret, None)
    /\ PinFrame

PortReadPin(op, pin) ==
    /\ port # None /\ ioPc = "idle"
    /\ \E e \in {0, EIO, ENOTTY} :
         LET r == read_pin(pins, pin, e)
         IN  io' = PinCall(op, None, r.sys, r.ret, r.val)
    /\ UNCHANGED pins
    /\ PinFrame

set_rts(level) == PortSetPin("set_rts", TIOCM_RTS, level)
set_dtr(level) == PortSetPin("set_dtr", TIOCM_DTR, level)
read_cts == PortReadPin("read_cts", TIOCM_CTS)
read_dsr == PortReadPin("read_dsr", TIOCM_DSR)
read_ri == PortReadPin("read_ri", TIOCM_RI)
read_cd == PortReadPin("read_cd", TIOCM_CD)

\* the line an operation names
PinOf(op) ==
    CASE op = "set_rts" -> TIOCM_RTS
      [] op = "set_dtr" -> TIOCM_DTR
      [] op = "read_cts" -> TIOCM_CTS
      [] op = "read_dsr" -> TIOCM_DSR
      [] op = "read_ri" -> TIOCM_RI
      [] op = "read_cd" -> TIOCM_CD

InputLines == {TIOCM_CTS, TIOCM_DSR, TIOCM_RI, TIOCM_CD}

\* the other end raises or drops one input line
LineChange ==
    /\ \E l \in InputLines : pins' = (pins \ l) \cup (l \ pins)
    /\ UNCHANGED io
    /\ PinFrame

NextPins ==
    \/ PortOpen
    \/ PortDrop
    \/ \E level \in BOOLEAN : set_rts(level)
    \/ \E level \in BOOLEAN : set_dtr(level)
    \/ read_cts
    \/ read_dsr
    \/ read_ri
    \/ read_cd
    \/ LineChange

SpecPins == InitLinux /\ [][NextPins]_vars

\* C21: the modem-control lines one at a time.  A set_rts / set_dtr that
\* returns Ok leaves the named line at the level given and every other
\* line as it was; a read_cts / read_dsr / read_ri / read_cd that returns
\* Ok returns whether the named line is set, whatever the others are, and
\* changes no line; a call whose request fails returns the mapped error of
\* that request and changes no line.  Each makes one request.
C21_OneLineAtATime ==
    [][ (io' # io /\ io' # None /\
         io'.op \in {"set_rts", "set_dtr", "read_cts", "read_dsr", "read_ri", "read_cd"}) =>
            LET line == PinOf(io'.op)
                set == io'.op \in {"set_rts", "set_dtr"}
            IN  /\ Len(io'.sys) = 1
                /\ pins' \ line = pins \ line
                /\ IF io'.ret = OkResult
                     THEN /\ io'.sys[1].ok
                          /\ set => (line \subseteq pins') = io'.arg
                          /\ ~set => /\ pins' = pins
                                     /\ io'.val = Some(line \subseteq pins)
                     ELSE /\ ~io'.sys[1].ok
                          /\ io'.ret = from_raw_os_error(io'.sys[1].errno)
                          /\ pins' = pins
                          /\ ~set => io'.val = None ]_vars

\* C21 witness: set_rts(false) returned Ok with DTR, CTS and RI asserted:
\* RTS is down, the three are still up and DSR and CD still down.
C21_Witness ==
    /\ io # None /\ io.op = "set_rts" /\ io.arg = FALSE /\ io.ret = OkResult
    /\ pins = TIOCM_DTR \cup TIOCM_CTS \cup TIOCM_RI

(***************************************************************************)
(* SpecStandard: the baud-rate codec of the standard backend (termios.rs,  *)
(* target_os other than linux; the arms are those of macos).               *)
(*                                                                         *)
(* There a speed_t is the rate itself (B9600 is 9600) and the block has    *)
(* the two speed words only.  cfsetspeed stores the value it accepts in    *)
(* both words, cfgetospeed and cfgetispeed return them.                    *)
(***************************************************************************)
\* the arms of `match baud_rate` in set_baud_rate, macos: the rate and the
\* libc constant
StdEncodeArms ==
    << <<BaudOther(W(50)), W(50)>>,
       <<BaudOther(W(75)), W(75)>>,
       <<Named("Baud110"), W(110)>>,
       <<BaudOther(W(134)), W(134)>>,
       <<BaudOther(W(150)), W(150)>>,
       <<BaudOther(W(200)), W(200)>>,
       <<Named("Baud300"), W(300)>>,
       <<Named("Baud600"), W(600)>>,
       <<Named("Baud1200"), W(1200)>>,
       <<BaudOther(W(1800)), W(1800)>>,
       <<Named("Baud2400"), W(2400)>>,
       <<Named("Baud4800"), W(4800)>>,
       <<BaudOther(W(7200)), W(7200)>>,
       <<Named("Baud9600"), W(9600)>>,
       <<BaudOther(W(14400)), W(14400)>>,
       <<Named("Baud19200"), W(19200)>>,
       <<BaudOther(W(28800)), W(28800)>>,
       <<Named("Baud38400"), W(38400)>>,
       <<Named("Baud57600"), W(57600)>>,
       <<BaudOther(W(76800)), W(76800)>>,
       <<Named("Baud115200"), W(115200)>>,
       <<BaudOther(W(230400)), W(230400)>> >>

\* the arms of `match baud` in baud_rate, macos
StdDecodeArms ==
    [i \in 1..Len(StdEncodeArms) |-> <<StdEncodeArms[i][2], StdEncodeArms[i][1]>>]

\* termios::get_speed
std_get_speed(t) == <<Standard(t.c_ospeed), Standard(t.c_ispeed)>>

\* libc::cfsetspeed(termios, v), answered 0
cfsetspeed(t, v) == [t EXCEPT !.c_ispeed = v, !.c_ospeed = v]

\* termios::set_speed, cfsetspeed answering e: the block and the result
std_set_speed(t, speed, e) ==
    [termios |-> IF e = 0 THEN cfsetspeed(t, speed.v) ELSE t,
     ret |-> IF e = 0 THEN OkResult ELSE from_raw_os_error(e)]

\* TTYSettings::baud_rate
std_baud_rate(t) ==
    LET ospeed == std_get_speed(t)[1]
        ispeed == std_get_speed(t)[2]
    IN  IF ospeed # ispeed THEN None
        ELSE IF ospeed.tag = "Standard" THEN Arm(StdDecodeArms, ospeed.v)
        ELSE Some(BaudOther(ospeed.v))

\* the Speed set_baud_rate hands to termios::set_speed (speed_t is 64 bits)
StdEncodeSpeed(b) ==
    IF Arm(StdEncodeArms, b) # None THEN Standard(Arm(StdEncodeArms, b)[1])
    ELSE Custom(b.n)

\* TTYSettings::set_baud_rate
std_set_baud_rate(t, b, e) == std_set_speed(t, StdEncodeSpeed(b), e)

StdSetBaudRate(b) ==
    /\ \E e \in {0, EINVAL} :
         LET r == std_set_baud_rate(termios, b, e)
         IN  /\ termios' = r.termios
             /\ lastBaud' = Some([rate |-> b, speed |-> StdEncodeSpeed(b), ret |-> r.ret])
    /\ lastOp' = Call("set_baud_rate", b)
    /\ SettingsFrame

\* baud_rate(): lastOp.arg holds what it returned
StdGetBaudRate ==
    /\ lastOp' = Call("baud_rate", std_baud_rate(termios))
    /\ UNCHANGED <<termios, lastBaud>>
    /\ SettingsFrame

\* the enumeration of macos, and three rates outside it
StdBaudRates ==
    {StdEncodeArms[i][1] : i \in 1..Len(StdEncodeArms)}
        \cup {BaudOther(W(31250)), BaudOther(W(250000)), BaudOther(W(460800))}

\* arbitrary memory: each speed word one of a few values
StdBlocks ==
    {[c_ispeed |-> i, c_ospeed |-> o] : i, o \in {W(0), W(9600), W(250000)}}

InitStandard ==
    /\ InitPort
    /\ InitPollIdle
    /\ InitErrorIdle
    /\ target = "other"
    /\ port = None
    /\ dev = None
    /\ rx = 0
    /\ tx = 0
    /\ ioPc = "idle"
    /\ io = None
    /\ pins = {}
    /\ termios \in StdBlocks
    /\ lastOp = Call("uninitialized", None)
    /\ lastBaud = None

NextStandard ==
    \/ \E b \in StdBaudRates : StdSetBaudRate(b)
    \/ StdGetBaudRate

SpecStandard == InitStandard /\ [][NextStandard]_vars

\* C23: a custom rate of the standard backend reads back.  When
\* set_baud_rate(BaudOther(n)), n outside the enumeration, has returned Ok,
\* baud_rate() on the same settings returns Some(BaudOther(n)).
C23_StandardCustomRoundTrip ==
    (/\ lastBaud # None
     /\ lastBaud[1].speed.tag = "Custom"
     /\ lastBaud[1].ret = OkResult) =>
        /\ std_baud_rate(termios) = Some(lastBaud[1].rate)
        /\ lastOp.op = "baud_rate" => lastOp.arg = Some(lastBaud[1].rate)

====
